---------------------------- MODULE Spec2Model ----------------------------
(***************************************************************************)
(* A model of the nautikus DAG controller: the reconciler                  *)
(* (internal/controller/dag_controller.go), the scheduler                  *)
(* (internal/scheduler), the runner (internal/runner/runner.go), the       *)
(* executor registry and the pod executor (internal/executor), together    *)
(* with the object store holding the Dag status and the pods.              *)
(***************************************************************************)
EXTENDS Integers, Sequences, FiniteSets, TLC

(***************************************************************************)
(* Bounds of the model.                                                    *)
(***************************************************************************)
\* SchedulerConfig.MaxActiveTasks of the scheduler under test.
MaxActiveTasks == 2
\* How many Status().Update calls of one behaviour may fail.
MaxWriteFailures == 1
\* The counter value from which no further NotifyTaskStarted call is begun.
MaxCount == 3
\* How many Register calls are made on a registry on its own.
MaxRegisters == 2

(***************************************************************************)
(* api/v1: task types, task states, pod phases.                            *)
(***************************************************************************)
TaskTypeBash == "Bash"
TaskTypePython == "Python"
TaskTypeGo == "Go"
\* A task type no built-in executor declares.
TaskTypeBogus == "Bogus"
\* A task type as a connector's Type() returns it, vendor first.
TaskTypeVendor == "kubeflow/pytorchjob"

StatePending == "Pending"
StateRunning == "Running"
StateCompleted == "Completed"
StateFailed == "Failed"
TaskStates == {StatePending, StateRunning, StateCompleted, StateFailed}
TerminalStates == {StateCompleted, StateFailed}

PodPending == "PodPending"
PodRunning == "PodRunning"
PodSucceeded == "PodSucceeded"
PodFailed == "PodFailed"
PodUnknown == "PodUnknown"

\* Error values returned by Reconcile ("" is nil).
NoError == ""
ErrFetch == "get dag failed"
ErrObservation == "get pod failed"
ErrNoExecutor == "no executor found for task type"
ErrCreatePod == "failed to create pod"
ErrConflict == "status update failed"
MsgStarted == "Task started"

\* metadata.name of the Dag under reconciliation.
DagName == "wf"

TaskSpec(name, type, deps) == [Name |-> name, Type |-> type, Dependencies |-> deps]

(***************************************************************************)
(* The workflows the model reconciles (Dag.Spec.Tasks).                    *)
(***************************************************************************)
\* no task at all
WfEmpty == << >>
\* three independent tasks: more roots than MaxActiveTasks
WfRoots == << TaskSpec("A", TaskTypeBash, << >>),
              TaskSpec("B", TaskTypePython, << >>),
              TaskSpec("C", TaskTypeGo, << >>) >>
\* C joins A and B
WfJoin == << TaskSpec("A", TaskTypeBash, << >>),
             TaskSpec("B", TaskTypeBash, << >>),
             TaskSpec("C", TaskTypeBash, <<"A", "B">>) >>
\* B has a type without executor
WfBogus == << TaskSpec("A", TaskTypeBash, << >>),
              TaskSpec("B", TaskTypeBogus, <<"A">>) >>
\* B depends on a task that is not in the spec
WfStuck == << TaskSpec("A", TaskTypeBash, << >>),
              TaskSpec("B", TaskTypeBash, <<"ghost">>) >>

Workflows == {WfEmpty, WfRoots, WfJoin, WfBogus, WfStuck}

\* B depends on itself, and has a type without executor
WfSelf == << TaskSpec("A", TaskTypeBash, << >>),
             TaskSpec("B", TaskTypeBogus, <<"B">>) >>
\* B and C depend on each other
WfCycle == << TaskSpec("A", TaskTypeBash, << >>),
              TaskSpec("B", TaskTypeBash, <<"A", "C">>),
              TaskSpec("C", TaskTypeBash, <<"B">>) >>
\* Workflows with a task that can never be a candidate
StuckWorkflows == {WfStuck, WfSelf, WfCycle}

\* B and C after A, D after both
WfDiamond == << TaskSpec("A", TaskTypeBash, << >>),
                TaskSpec("B", TaskTypeBash, <<"A">>),
                TaskSpec("C", TaskTypeBash, <<"A">>),
                TaskSpec("D", TaskTypeBash, <<"B", "C">>) >>
\* Four tasks without dependencies
WfWide == << TaskSpec("A", TaskTypeBash, << >>),
             TaskSpec("B", TaskTypeBash, << >>),
             TaskSpec("C", TaskTypeBash, << >>),
             TaskSpec("D", TaskTypeBash, << >>) >>

\* A task of a vendor type after a Bash task, and another Bash task.
WfVendor == << TaskSpec("A", TaskTypeBash, << >>),
               TaskSpec("V", TaskTypeVendor, <<"A">>),
               TaskSpec("C", TaskTypeBash, << >>) >>

\* Unique names, every dependency an earlier task of the spec.
ValidWorkflow(tasks) ==
    /\ \A i, j \in 1..Len(tasks) : tasks[i].Name = tasks[j].Name => i = j
    /\ \A i \in 1..Len(tasks) : \A k \in 1..Len(tasks[i].Dependencies) :
          \E j \in 1..(i - 1) : tasks[j].Name = tasks[i].Dependencies[k]

VARIABLES
    spec,               \* Dag.Spec.Tasks
    stored,             \* Dag.Status as held by the object store
    pods,               \* the pods of the namespace: name -> phase
    activeTasksPerDAG,  \* DefaultScheduler.activeTasksPerDAG
    totalActiveTasks,   \* DefaultScheduler.totalActiveTasks
    executors,          \* executor.Registry.executors: task type -> executor
    writeFailures,      \* failed Status().Update calls so far
    tick,               \* what the last step did, when it was a Reconcile
    failedSeen,         \* the tasks some call of syncStatus has turned Failed
    mu,                 \* DefaultScheduler.mu: the goroutine holding it, "" if free
    calls,              \* the Notify* call each goroutine is in
    regMu,              \* executor.Registry.mu: its writer, readers and waiting writers
    regCalls,           \* the Registry call each goroutine is in
    regLog,             \* the executors registered, in the order of the Register calls
    connectors,         \* connector.Registry: externalConnectors and cloudConnectors
    connLog,            \* the connectors registered, in the order of the calls
    call,               \* the last call made directly on the pod executor or the scheduler
    notified         \* the tasks NotifyTaskStarted has been called for

\* The variables of the components exercised on their own.
registryVars == <<regMu, regCalls, regLog>>
connectorVars == <<connectors, connLog>>

vars == <<spec, stored, pods, activeTasksPerDAG, totalActiveTasks, executors,
          writeFailures, tick, failedSeen, mu, calls, registryVars,
          connectorVars, call, notified>>

(***************************************************************************)
(* Go maps: a missing key reads as the zero value.                         *)
(***************************************************************************)
EmptyMap == [k \in {} |-> 0]
MapGet(m, k) == IF k \in DOMAIN m THEN m[k] ELSE 0
MapPut(m, k, v) == [x \in (DOMAIN m) \cup {k} |-> IF x = k THEN v ELSE m[x]]
MapDelete(m, k) == [x \in (DOMAIN m) \ {k} |-> m[x]]

\* The names of a sequence of task specs.
RECURSIVE Names(_)
Names(tasks) ==
    IF tasks = << >> THEN << >> ELSE <<Head(tasks).Name>> \o Names(Tail(tasks))

Range(s) == {s[i] : i \in 1..Len(s)}

(***************************************************************************)
(* pod.Executor                                                            *)
(***************************************************************************)
getPodName(dagName, taskName) == dagName \o "-" \o taskName

\* Executor.Type
PodExecutorTypes == {TaskTypeBash, TaskTypePython, TaskTypeGo}

\* Mutant of GetStatus: the PodSucceeded case is missing.
GetStatus_NoSucceeded(podMap, dagName, task, apiErr) ==
    LET podName == getPodName(dagName, task.Name) IN
    IF apiErr THEN [state |-> StateFailed, err |-> TRUE]
    ELSE IF podName \notin DOMAIN podMap THEN [state |-> StatePending, err |-> FALSE]
    ELSE IF podMap[podName] = PodFailed THEN [state |-> StateFailed, err |-> FALSE]
    ELSE IF podMap[podName] = PodRunning THEN [state |-> StateRunning, err |-> FALSE]
    ELSE [state |-> StatePending, err |-> FALSE]

\* Mutant of GetStatus: a pod that is not found is reported as an error.
GetStatus_MissingFails(podMap, dagName, task, apiErr) ==
    LET podName == getPodName(dagName, task.Name) IN
    IF apiErr \/ podName \notin DOMAIN podMap THEN [state |-> StateFailed, err |-> TRUE]
    ELSE IF podMap[podName] = PodSucceeded THEN [state |-> StateCompleted, err |-> FALSE]
    ELSE IF podMap[podName] = PodFailed THEN [state |-> StateFailed, err |-> FALSE]
    ELSE IF podMap[podName] = PodRunning THEN [state |-> StateRunning, err |-> FALSE]
    ELSE [state |-> StatePending, err |-> FALSE]

\* Executor.GetStatus; apiErr: the client's Get fails other than not-found.
GetStatus(podMap, dagName, task, apiErr) ==
    LET podName == getPodName(dagName, task.Name) IN
    IF apiErr THEN [state |-> StateFailed, err |-> TRUE]
    ELSE IF podName \notin DOMAIN podMap THEN [state |-> StatePending, err |-> FALSE]
    ELSE IF podMap[podName] = PodSucceeded THEN [state |-> StateCompleted, err |-> FALSE]
    ELSE IF podMap[podName] = PodFailed THEN [state |-> StateFailed, err |-> FALSE]
    ELSE IF podMap[podName] = PodRunning THEN [state |-> StateRunning, err |-> FALSE]
    ELSE [state |-> StatePending, err |-> FALSE]

\* Mutant of Execute: an existing pod is replaced by a new one.
Execute_Recreates(podMap, dagName, task, createErr) ==
    LET podName == getPodName(dagName, task.Name) IN
    IF createErr THEN [pods |-> podMap, err |-> ErrCreatePod, created |-> {}]
    ELSE [pods |-> MapPut(podMap, podName, PodPending), err |-> NoError,
          created |-> {podName}]

\* Executor.Execute; createErr: the client's Create fails other than
\* already-exists.  An existing pod is left as it is.
Execute(podMap, dagName, task, createErr) ==
    LET podName == getPodName(dagName, task.Name) IN
    IF createErr THEN [pods |-> podMap, err |-> ErrCreatePod, created |-> {}]
    ELSE IF podName \in DOMAIN podMap THEN [pods |-> podMap, err |-> NoError, created |-> {}]
    ELSE [pods |-> MapPut(podMap, podName, PodPending), err |-> NoError,
          created |-> {podName}]

\* Mutant of Cleanup: deleting a pod that does not exist is an error.
Cleanup_MissingFails(podMap, dagName, task, deleteErr) ==
    LET podName == getPodName(dagName, task.Name) IN
    IF deleteErr \/ podName \notin DOMAIN podMap THEN [pods |-> podMap, err |-> TRUE]
    ELSE [pods |-> MapDelete(podMap, podName), err |-> FALSE]

\* Executor.Cleanup; deleteErr: the client's Delete fails other than
\* not-found.
Cleanup(podMap, dagName, task, deleteErr) ==
    LET podName == getPodName(dagName, task.Name) IN
    IF deleteErr THEN [pods |-> podMap, err |-> TRUE]
    ELSE IF podName \notin DOMAIN podMap THEN [pods |-> podMap, err |-> FALSE]
    ELSE [pods |-> MapDelete(podMap, podName), err |-> FALSE]

(***************************************************************************)
(* executor.Registry; an executor is [id, types], types what Type() returns *)
(***************************************************************************)
PodExecutor == [id |-> "pod", types |-> <<TaskTypeBash, TaskTypePython, TaskTypeGo>>]
\* Executors a user of the package registers.
CustomExecutor == [id |-> "custom", types |-> <<TaskTypeBogus>>]
AltExecutor == [id |-> "alt", types |-> <<TaskTypeGo, TaskTypeBogus>>]
ExecutorPool == {PodExecutor, CustomExecutor, AltExecutor}
Kinds == {TaskTypeBash, TaskTypePython, TaskTypeGo, TaskTypeBogus}

\* Mutant of RegisterKind: a type that has an executor keeps it.
RegisterKind_KeepFirst(reg, taskType, id) ==
    IF taskType \in DOMAIN reg THEN reg ELSE MapPut(reg, taskType, id)

\* Registry.Register, one pass of its loop: r.executors[taskType] = exec
RegisterKind(reg, taskType, id) == MapPut(reg, taskType, id)

RECURSIVE RegisterKinds(_, _, _)
RegisterKinds(reg, types, id) ==
    IF types = << >> THEN reg
    ELSE RegisterKinds(RegisterKind(reg, Head(types), id), Tail(types), id)

\* Registry.Register
RegistryRegister(reg, exec) == RegisterKinds(reg, exec.types, exec.id)

\* Registry.Get: the executor ("" for nil) and whether an error is returned.
RegistryGet(reg, taskType) ==
    IF taskType \in DOMAIN reg THEN [exec |-> reg[taskType], err |-> FALSE]
    ELSE [exec |-> "", err |-> TRUE]

\* Registry.Has
RegistryHas(reg, taskType) == taskType \in DOMAIN reg

\* The sequences without repetition over a set.
RECURSIVE Orderings(_)
Orderings(S) ==
    IF S = {} THEN {<< >>}
    ELSE UNION {{<<x>> \o t : t \in Orderings(S \ {x})} : x \in S}

\* Registry.Types: the slices it may return, Go ranging over a map in any
\* order.
RegistryTypes(reg) == Orderings(DOMAIN reg)

\* The registry as SetupComponents leaves it.
InitialRegistry == RegistryRegister(EmptyMap, PodExecutor)

(***************************************************************************)
(* runner.DefaultRunner                                                    *)
(***************************************************************************)
\* Mutant of ResultPodName: another separator.
ResultPodName_Underscore(dagName, taskName) == dagName \o "_" \o taskName

\* RunResult.PodName as DefaultRunner.Run formats it.
ResultPodName(dagName, taskName) == dagName \o "-" \o taskName

\* DefaultRunner.Run once the registry has returned an executor.
RunExecute(podMap, dagName, task, createErr) ==
    LET e == Execute(podMap, dagName, task, createErr) IN
    IF e.err # NoError
    THEN [pods |-> e.pods, err |-> e.err, created |-> e.created,
          State |-> StateFailed, PodName |-> ResultPodName(dagName, task.Name),
          Message |-> e.err]
    ELSE [pods |-> e.pods, err |-> NoError, created |-> e.created,
          State |-> StatePending, PodName |-> ResultPodName(dagName, task.Name),
          Message |-> MsgStarted]

\* Mutant of Run: the registry's miss is not returned.
Run_NoRegistryCheck(registry, podMap, dagName, task, createErr) ==
    RunExecute(podMap, dagName, task, createErr)

\* DefaultRunner.Run: the registry's Get, then Execute.
Run(registry, podMap, dagName, task, createErr) ==
    IF RegistryGet(registry, task.Type).err
    THEN [pods |-> podMap, err |-> ErrNoExecutor, created |-> {},
          State |-> StateFailed, PodName |-> "", Message |-> ErrNoExecutor]
    ELSE RunExecute(podMap, dagName, task, createErr)

\* DefaultRunner.GetStatus
RunnerGetStatus(registry, podMap, dagName, task, apiErr) ==
    IF RegistryGet(registry, task.Type).err
    THEN [state |-> StateFailed, err |-> TRUE]
    ELSE GetStatus(podMap, dagName, task, apiErr)

(***************************************************************************)
(* scheduler.DefaultScheduler; sched is [perDAG, total], the two counters. *)
(***************************************************************************)
\* A call of the scheduler as its log keeps it.
Notification(op, dagName, taskName) == [op |-> op, dag |-> dagName, task |-> taskName]

\* log: the calls of NotifyTaskStarted and NotifyTaskCompleted in the order
\* in which the scheduler got them.
NotifyTaskStarted(sched, dagName, taskName) ==
    [perDAG |-> MapPut(sched.perDAG, dagName, MapGet(sched.perDAG, dagName) + 1),
     total |-> sched.total + 1,
     log |-> Append(sched.log, Notification("started", dagName, taskName))]

\* Mutant of NotifyTaskCompleted: the counters are lowered without a test.
NotifyTaskCompleted_NoFloor(sched, dagName, taskName) ==
    LET dec == MapPut(sched.perDAG, dagName, MapGet(sched.perDAG, dagName) - 1)
    IN [perDAG |-> IF MapGet(dec, dagName) = 0 THEN MapDelete(dec, dagName) ELSE dec,
        total |-> sched.total - 1,
        log |-> Append(sched.log, Notification("completed", dagName, taskName))]

NotifyTaskCompleted(sched, dagName, taskName) ==
    LET dec == IF MapGet(sched.perDAG, dagName) > 0
               THEN MapPut(sched.perDAG, dagName, MapGet(sched.perDAG, dagName) - 1)
               ELSE sched.perDAG
    IN [perDAG |-> IF MapGet(dec, dagName) = 0 THEN MapDelete(dec, dagName) ELSE dec,
        total |-> IF sched.total > 0 THEN sched.total - 1 ELSE sched.total,
        log |-> Append(sched.log, Notification("completed", dagName, taskName))]

\* Mutant of CanSchedule: the limit itself still passes.
CanSchedule_Inclusive(sched) == ~(sched.total > MaxActiveTasks)

\* DefaultScheduler.CanSchedule
CanSchedule(sched) == ~(sched.total >= MaxActiveTasks)

\* statusMap of Schedule: the state of the last record named name, "" if none.
StatusState(taskStatuses, name) ==
    LET hits == {i \in 1..Len(taskStatuses) : taskStatuses[i].Name = name} IN
    IF hits = {} THEN ""
    ELSE taskStatuses[CHOOSE i \in hits : \A j \in hits : j <= i].State

HasStatus(taskStatuses, name) ==
    \E i \in 1..Len(taskStatuses) : taskStatuses[i].Name = name

\* activeCount of Schedule
ActiveCount(taskStatuses) ==
    Cardinality({i \in 1..Len(taskStatuses) :
                    taskStatuses[i].State \in {StateRunning, StatePending}})

\* Mutant of AllDepsCompleted: a dependency only has to be started.
AllDepsCompleted_Started(taskStatuses, task) ==
    \A k \in 1..Len(task.Dependencies) :
        StatusState(taskStatuses, task.Dependencies[k]) # ""

\* allDepsCompleted of Schedule
AllDepsCompleted(taskStatuses, task) ==
    \A k \in 1..Len(task.Dependencies) :
        StatusState(taskStatuses, task.Dependencies[k]) = StateCompleted

\* Mutant of IsCandidate: a dependency of a task on itself is not looked at.
IsCandidate_SelfIgnored(taskStatuses, task) ==
    /\ ~HasStatus(taskStatuses, task.Name)
    /\ \A k \in 1..Len(task.Dependencies) :
          \/ task.Dependencies[k] = task.Name
          \/ StatusState(taskStatuses, task.Dependencies[k]) = StateCompleted

\* Mutant of IsCandidate: a task that has a record is a candidate again.
IsCandidate_IgnoresRecord(taskStatuses, task) ==
    AllDepsCompleted(taskStatuses, task)

\* One task of the spec is a candidate.
IsCandidate(taskStatuses, task) ==
    /\ ~HasStatus(taskStatuses, task.Name)
    /\ AllDepsCompleted(taskStatuses, task)

\* Mutant of Candidates: the candidates come in the reverse order of the spec.
RECURSIVE Candidates_Reversed(_, _)
Candidates_Reversed(tasks, taskStatuses) ==
    IF tasks = << >> THEN << >>
    ELSE Candidates_Reversed(Tail(tasks), taskStatuses)
         \o (IF IsCandidate(taskStatuses, Head(tasks)) THEN <<Head(tasks)>> ELSE << >>)

\* candidates of Schedule, in the order of the spec
RECURSIVE Candidates(_, _)
Candidates(tasks, taskStatuses) ==
    IF tasks = << >> THEN << >>
    ELSE (IF IsCandidate(taskStatuses, Head(tasks)) THEN <<Head(tasks)>> ELSE << >>)
         \o Candidates(Tail(tasks), taskStatuses)

\* availableSlots of Schedule
AvailableSlots(taskStatuses) == MaxActiveTasks - ActiveCount(taskStatuses)

\* Mutant of Schedule: the concurrency limit is not applied.
Schedule_NoLimit(tasks, taskStatuses) == Candidates(tasks, taskStatuses)

\* DefaultScheduler.Schedule (sortByPolicy leaves the order as it is)
Schedule(tasks, taskStatuses) ==
    LET candidates == Candidates(tasks, taskStatuses)
        availableSlots == AvailableSlots(taskStatuses)
    IN IF availableSlots <= 0 THEN << >>
       ELSE IF Len(candidates) > availableSlots
            THEN SubSeq(candidates, 1, availableSlots)
            ELSE candidates

\* Mutant of DefaultSchedulerSchedule: nothing is admitted while the total
\* counter is at the limit.
DefaultSchedulerSchedule_GatedOnCounters(sched, tasks, taskStatuses) ==
    [next |-> IF CanSchedule(sched) THEN Schedule(tasks, taskStatuses) ELSE << >>,
     sched |-> sched]

\* DefaultScheduler.Schedule with its receiver: the tasks it returns and the
\* scheduler it leaves.
DefaultSchedulerSchedule(sched, tasks, taskStatuses) ==
    [next |-> Schedule(tasks, taskStatuses), sched |-> sched]


(***************************************************************************)
(* controller.DagReconciler                                                *)
(***************************************************************************)
\* statusMap of syncStatus: the index of the last record named name, 0 if none.
StatusIndex(taskStatuses, name) ==
    LET hits == {i \in 1..Len(taskStatuses) : taskStatuses[i].Name = name} IN
    IF hits = {} THEN 0 ELSE CHOOSE i \in hits : \A j \in hits : j <= i

\* The index a "for i := range ...; if Name == name {...; break}" loop stops at.
FirstIndex(taskStatuses, name) ==
    LET hits == {i \in 1..Len(taskStatuses) : taskStatuses[i].Name = name} IN
    IF hits = {} THEN 0 ELSE CHOOSE i \in hits : \A j \in hits : i <= j

\* syncStatus, the fallback branch: the pod is read by the record's PodName.
\* acc is [Status, sched, err]; getErr: the Get fails other than not-found.
SyncFallback(acc, idx, podMap, getErr) ==
    LET ts == acc.Status.TaskStatuses
        podName == ts[idx].PodName
    IN IF getErr THEN [acc EXCEPT !.err = ErrObservation]
       ELSE IF podName \notin DOMAIN podMap THEN acc
       ELSE IF podMap[podName] = PodSucceeded
            THEN [acc EXCEPT !.Status.TaskStatuses[idx].State = StateCompleted,
                             !.sched = NotifyTaskCompleted(acc.sched, DagName, ts[idx].Name)]
       ELSE IF podMap[podName] = PodFailed
            THEN [acc EXCEPT !.Status.TaskStatuses[idx].State = StateFailed,
                             !.Status.State = StateFailed,
                             !.sched = NotifyTaskCompleted(acc.sched, DagName, ts[idx].Name)]
       ELSE [acc EXCEPT !.Status.TaskStatuses[idx].State = StateRunning]

\* syncStatus, "Update status if changed".
SyncUpdate(acc, idx, state) ==
    LET previousState == acc.Status.TaskStatuses[idx].State IN
    IF previousState = state THEN acc
    ELSE [Status |->
             [State |-> IF state = StateFailed THEN StateFailed ELSE acc.Status.State,
              TaskStatuses |->
                 [acc.Status.TaskStatuses EXCEPT ![idx].State = state]],
          sched |-> IF /\ state \in {StateCompleted, StateFailed}
                       /\ previousState \in {StateRunning, StatePending}
                    THEN NotifyTaskCompleted(acc.sched, DagName,
                                             acc.Status.TaskStatuses[idx].Name)
                    ELSE acc.sched,
          err |-> acc.err]

\* Mutant of SyncSkips: records in a terminal state are observed again.
SyncSkips_TerminalObserved(taskStatuses, idx) == idx = 0

\* Whether syncStatus skips the record at idx (0: the task has no record).
SyncSkips(taskStatuses, idx) ==
    \/ idx = 0
    \/ taskStatuses[idx].State \in {StateCompleted, StateFailed}

\* syncStatus, one pass of its loop over dag.Spec.Tasks.
SyncTask(acc, task, podMap, registry, obsErr, getErr) ==
    LET idx == StatusIndex(acc.Status.TaskStatuses, task.Name) IN
    IF acc.err # NoError THEN acc
    ELSE IF SyncSkips(acc.Status.TaskStatuses, idx) THEN acc
    ELSE LET got == RunnerGetStatus(registry, podMap, DagName, task,
                                    task.Name \in obsErr)
         IN IF got.err THEN SyncFallback(acc, idx, podMap, getErr)
            ELSE SyncUpdate(acc, idx, got.state)

RECURSIVE SyncLoop(_, _, _, _, _, _)
SyncLoop(acc, tasks, podMap, registry, obsErr, getErr) ==
    IF tasks = << >> THEN acc
    ELSE SyncLoop(SyncTask(acc, Head(tasks), podMap, registry, obsErr, getErr),
                  Tail(tasks), podMap, registry, obsErr, getErr)

\* syncStatus: an empty State becomes Running, then every task of the spec
\* that has a non-terminal record is observed.
syncStatus(status, sched, tasks, podMap, registry, obsErr, getErr) ==
    SyncLoop([Status |-> [State |-> IF status.State = "" THEN StateRunning
                                    ELSE status.State,
                          TaskStatuses |-> status.TaskStatuses],
              sched |-> sched, err |-> NoError],
             tasks, podMap, registry, obsErr, getErr)

\* Mutant of updateDAGState: the number of records is not compared.
updateDAGState_NoLenCheck(status, tasks) ==
    IF status.State = StateFailed THEN status
    ELSE IF \A i \in 1..Len(status.TaskStatuses) :
               status.TaskStatuses[i].State = StateCompleted
         THEN [status EXCEPT !.State = StateCompleted]
         ELSE status

\* updateDAGState
updateDAGState(status, tasks) ==
    IF status.State = StateFailed THEN status
    ELSE IF /\ \A i \in 1..Len(status.TaskStatuses) :
                  status.TaskStatuses[i].State = StateCompleted
            /\ Len(status.TaskStatuses) = Len(tasks)
         THEN [status EXCEPT !.State = StateCompleted]
         ELSE status

\* Mutant of LaunchFailed: the record of the task is left Pending.
LaunchFailed_RecordPending(acc, appended, started, result, name) ==
    [Status |-> [State |-> StateFailed, TaskStatuses |-> appended],
     sched |-> NotifyTaskCompleted(started, DagName, name),
     pods |-> result.pods,
     err |-> result.err,
     launched |-> Append(acc.launched, name),
     created |-> acc.created \cup result.created]

\* Mutant of LaunchFailed: dag.Status.State is not set to Failed.
LaunchFailed_DagNotFailed(acc, appended, started, result, name) ==
    [Status |-> [State |-> acc.Status.State,
                 TaskStatuses |->
                    [appended EXCEPT ![FirstIndex(appended, name)].State = StateFailed,
                                     ![FirstIndex(appended, name)].Message = result.err]],
     sched |-> NotifyTaskCompleted(started, DagName, name),
     pods |-> result.pods,
     err |-> result.err,
     launched |-> Append(acc.launched, name),
     created |-> acc.created \cup result.created]

\* Reconcile, "if err != nil" after Runner.Run: the record is marked Failed,
\* the Dag Failed, the scheduler notified; the caller writes and returns.
LaunchFailed(acc, appended, started, result, name) ==
    [Status |-> [State |-> StateFailed,
                 TaskStatuses |->
                    [appended EXCEPT ![FirstIndex(appended, name)].State = StateFailed,
                                     ![FirstIndex(appended, name)].Message = result.err]],
     sched |-> NotifyTaskCompleted(started, DagName, name),
     pods |-> result.pods,
     err |-> result.err,
     launched |-> Append(acc.launched, name),
     created |-> acc.created \cup result.created]

\* Reconcile, "Update task status from result".
LaunchSucceeded(acc, appended, started, result, name) ==
    [Status |-> [State |-> acc.Status.State,
                 TaskStatuses |->
                    [appended EXCEPT ![FirstIndex(appended, name)].State = result.State,
                                     ![FirstIndex(appended, name)].PodName = result.PodName,
                                     ![FirstIndex(appended, name)].Message = result.Message]],
     sched |-> started,
     pods |-> result.pods,
     err |-> NoError,
     launched |-> Append(acc.launched, name),
     created |-> acc.created \cup result.created]

\* TaskStatus.PodName as Reconcile formats it for the record it appends.
StatusPodName(dagName, taskName) == dagName \o "-" \o taskName

\* The record Reconcile appends before it runs the task.
PendingRecord(task) ==
    [Name |-> task.Name, State |-> StatePending,
     PodName |-> StatusPodName(DagName, task.Name), Message |-> ""]

\* Mutant of LaunchRun: NotifyTaskStarted is called once Run has succeeded.
LaunchRun_StartedOnSuccess(acc, task, result) ==
    IF result.err # NoError
    THEN LaunchFailed(acc, Append(acc.Status.TaskStatuses, PendingRecord(task)),
                      acc.sched, result, task.Name)
    ELSE LaunchSucceeded(acc, Append(acc.Status.TaskStatuses, PendingRecord(task)),
                         NotifyTaskStarted(acc.sched, DagName, task.Name), result, task.Name)

\* Reconcile, one pass of "for _, task := range nextTasks".
\* acc is [Status, sched, pods, err, launched, created]; a pass after the
\* one that returned does nothing.
LaunchRun(acc, task, result) ==
    IF result.err # NoError
    THEN LaunchFailed(acc, Append(acc.Status.TaskStatuses, PendingRecord(task)),
                      NotifyTaskStarted(acc.sched, DagName, task.Name), result, task.Name)
    ELSE LaunchSucceeded(acc, Append(acc.Status.TaskStatuses, PendingRecord(task)),
                         NotifyTaskStarted(acc.sched, DagName, task.Name), result, task.Name)

LaunchTask(acc, task, registry, createErr) ==
    IF acc.err # NoError THEN acc
    ELSE LaunchRun(acc, task, Run(registry, acc.pods, DagName, task, createErr))

\* failAt: the position in nextTasks of the task whose pod cannot be created
\* (0: every Create goes through); k: the position of Head(nextTasks).
RECURSIVE LaunchLoop(_, _, _, _, _)
LaunchLoop(acc, nextTasks, registry, failAt, k) ==
    IF nextTasks = << >> THEN acc
    ELSE LaunchLoop(LaunchTask(acc, Head(nextTasks), registry, failAt = k),
                    Tail(nextTasks), registry, failAt, k + 1)


\* What one call of Reconcile did, for the properties to read.
\*   observed: dag.Status after syncStatus; obsFailed: the tasks syncStatus
\*   turned Failed; scheduled: the names Schedule returned; launched: the names
\*   passed to Runner.Run; created: the pods Execute created; err: the error
\*   returned; requeue: Result.Requeue; wrote: "ok", "failed" or "no", how
\*   Status().Update ended, if called.
Tick(observed, obsFailed, scheduled, launched, created, err, requeue, wrote) ==
    [kind |-> "reconcile", observed |-> observed, obsFailed |-> obsFailed,
     scheduled |-> scheduled, launched |-> launched, created |-> created,
     err |-> err, requeue |-> requeue, wrote |-> wrote, notifications |-> << >>,
     fetch |-> "ok"]

\* The last step was no Reconcile.
NoTick ==
    [kind |-> "none", observed |-> [State |-> "", TaskStatuses |-> << >>],
     obsFailed |-> {}, scheduled |-> << >>, launched |-> << >>, created |-> {},
     err |-> NoError, requeue |-> FALSE, wrote |-> "no", notifications |-> << >>,
     fetch |-> ""]

\* The tasks syncStatus moved to Failed.
ObservedFailed(before, after) ==
    {after[i].Name : i \in {j \in 1..Len(after) :
        /\ j <= Len(before)
        /\ before[j].State \notin {StateCompleted, StateFailed}
        /\ after[j].State = StateFailed}}

\* Mutant of ReconcileWrite: what syncStatus changed is written before the
\* launch loop, so a failing write at the end leaves half of the changes.
ReconcileWrite_SyncWrittenFirst(synced, obsFailed, scheduled, run, writeErr) ==
    IF run.err # NoError
    THEN [stored |-> IF writeErr THEN stored ELSE run.Status,
          pods |-> run.pods, sched |-> run.sched,
          tick |-> Tick(synced.Status, obsFailed, scheduled, run.launched,
                        run.created, run.err, FALSE,
                        IF writeErr THEN "failed" ELSE "ok")]
    ELSE IF writeErr
    THEN [stored |-> synced.Status, pods |-> run.pods, sched |-> run.sched,
          tick |-> Tick(synced.Status, obsFailed, scheduled, run.launched,
                        run.created, ErrConflict, FALSE, "failed")]
    ELSE [stored |-> updateDAGState(run.Status, spec),
          pods |-> run.pods, sched |-> run.sched,
          tick |-> Tick(synced.Status, obsFailed, scheduled, run.launched,
                        run.created, NoError,
                        updateDAGState(run.Status, spec).State = StateRunning,
                        "ok")]

\* Mutant of ReconcileWrite: a write that returns an error has stored the
\* status all the same.
ReconcileWrite_StoredDespiteError(synced, obsFailed, scheduled, run, writeErr) ==
    IF run.err # NoError
    THEN [stored |-> IF writeErr THEN stored ELSE run.Status,
          pods |-> run.pods, sched |-> run.sched,
          tick |-> Tick(synced.Status, obsFailed, scheduled, run.launched,
                        run.created, run.err, FALSE,
                        IF writeErr THEN "failed" ELSE "ok")]
    ELSE IF writeErr
    THEN [stored |-> updateDAGState(run.Status, spec), pods |-> run.pods,
          sched |-> run.sched,
          tick |-> Tick(synced.Status, obsFailed, scheduled, run.launched,
                        run.created, ErrConflict, FALSE, "failed")]
    ELSE [stored |-> updateDAGState(run.Status, spec),
          pods |-> run.pods, sched |-> run.sched,
          tick |-> Tick(synced.Status, obsFailed, scheduled, run.launched,
                        run.created, NoError,
                        updateDAGState(run.Status, spec).State = StateRunning,
                        "ok")]

\* Reconcile after its launch loop: run is what the loop left, an error of
\* Run included.  writeErr: Status().Update fails.
ReconcileWrite(synced, obsFailed, scheduled, run, writeErr) ==
    IF run.err # NoError
    THEN \* the failed status is written, an error of the write only logged
         [stored |-> IF writeErr THEN stored ELSE run.Status,
          pods |-> run.pods, sched |-> run.sched,
          tick |-> Tick(synced.Status, obsFailed, scheduled, run.launched,
                        run.created, run.err, FALSE,
                        IF writeErr THEN "failed" ELSE "ok")]
    ELSE IF writeErr
    THEN [stored |-> stored, pods |-> run.pods, sched |-> run.sched,
          tick |-> Tick(synced.Status, obsFailed, scheduled, run.launched,
                        run.created, ErrConflict, FALSE, "failed")]
    ELSE [stored |-> updateDAGState(run.Status, spec),
          pods |-> run.pods, sched |-> run.sched,
          tick |-> Tick(synced.Status, obsFailed, scheduled, run.launched,
                        run.created, NoError,
                        updateDAGState(run.Status, spec).State = StateRunning,
                        "ok")]

\* Reconcile, its loop over the tasks Schedule returned.
ReconcileLaunch(synced, obsFailed, nextTasks, failAt, writeErr) ==
    ReconcileWrite(synced, obsFailed, Names(nextTasks),
                   LaunchLoop([Status |-> synced.Status, sched |-> synced.sched,
                               pods |-> pods, err |-> NoError,
                               launched |-> << >>, created |-> {}],
                              nextTasks, executors, failAt, 1),
                   writeErr)

\* Mutant of ShortCircuits: a Failed Dag is scheduled on.
ShortCircuits_CompletedOnly(status) == status.State = StateCompleted

\* Whether Reconcile returns right after syncStatus, without a write.
ShortCircuits(status) == status.State \in {StateCompleted, StateFailed}

\* Reconcile, from syncStatus on.
ReconcileSynced(synced, obsFailed, failAt, writeErr) ==
    IF synced.err # NoError
    THEN [stored |-> stored, pods |-> pods, sched |-> synced.sched,
          tick |-> Tick(synced.Status, obsFailed, << >>, << >>, {}, synced.err,
                        FALSE, "no")]
    ELSE IF ShortCircuits(synced.Status)
    THEN [stored |-> stored, pods |-> pods, sched |-> synced.sched,
          tick |-> Tick(synced.Status, obsFailed, << >>, << >>, {}, NoError,
                        FALSE, "no")]
    ELSE LET scheduled == DefaultSchedulerSchedule(synced.sched, spec,
                                                   synced.Status.TaskStatuses)
         IN ReconcileLaunch([synced EXCEPT !.sched = scheduled.sched], obsFailed,
                            scheduled.next, failAt, writeErr)

\* Mutant of ReconcileRun: a Dag that is not found is an error like any other.
ReconcileRun_NotFoundIsError(fetch, obsErr, getErr, failAt, writeErr) ==
    LET sched0 == [perDAG |-> activeTasksPerDAG, total |-> totalActiveTasks,
                   log |-> << >>] IN
    IF fetch # "ok"
    THEN [stored |-> stored, pods |-> pods, sched |-> sched0,
          tick |-> Tick([State |-> "", TaskStatuses |-> << >>], {}, << >>, << >>, {},
                        ErrFetch, FALSE, "no")]
    ELSE LET synced == syncStatus(stored, sched0, spec, pods, executors,
                                  obsErr, getErr)
         IN ReconcileSynced(synced,
                            ObservedFailed(stored.TaskStatuses,
                                           synced.Status.TaskStatuses),
                            failAt, writeErr)

\* DagReconciler.Reconcile as a function of the state and of what the calls
\* to the API server do.  fetch: "ok", "notfound" or "error", the Get of the
\* Dag; obsErr: the tasks whose pod the executor's GetStatus cannot read;
\* getErr: the fallback Get fails; failAt, writeErr: as above.
ReconcileRun(fetch, obsErr, getErr, failAt, writeErr) ==
    LET sched0 == [perDAG |-> activeTasksPerDAG, total |-> totalActiveTasks,
                   log |-> << >>] IN
    IF fetch # "ok"
    THEN [stored |-> stored, pods |-> pods, sched |-> sched0,
          tick |-> Tick([State |-> "", TaskStatuses |-> << >>], {}, << >>, << >>, {},
                        IF fetch = "notfound" THEN NoError ELSE ErrFetch,
                        FALSE, "no")]
    ELSE LET synced == syncStatus(stored, sched0, spec, pods, executors,
                                  obsErr, getErr)
         IN ReconcileSynced(synced,
                            ObservedFailed(stored.TaskStatuses,
                                           synced.Status.TaskStatuses),
                            failAt, writeErr)

\* The tasks syncStatus observes: those with a non-terminal record.
Observable ==
    {stored.TaskStatuses[i].Name : i \in {j \in 1..Len(stored.TaskStatuses) :
        stored.TaskStatuses[j].State \notin {StateCompleted, StateFailed}}}

(***************************************************************************)
(* Actions                                                                 *)
(***************************************************************************)
\* The tasks of a log for which op was called.
LogTasks(log, op) == {log[i].task : i \in {j \in 1..Len(log) : log[j].op = op}}

\* The tasks NotifyTaskStarted has been called for once the calls of one
\* more Reconcile are counted in.
Notified(hist, log) == hist \cup LogTasks(log, "started")

\* One call of Reconcile for the Dag.
ReconcileStep(fetch, obsErr, getErr, failAt, writeErr) ==
    /\ writeErr => writeFailures < MaxWriteFailures
    /\ \E out \in {ReconcileRun(fetch, obsErr, getErr, failAt, writeErr)} :
       /\ stored' = out.stored
       /\ pods' = out.pods
       /\ activeTasksPerDAG' = out.sched.perDAG
       /\ totalActiveTasks' = out.sched.total
       /\ tick' = [out.tick EXCEPT !.notifications = out.sched.log, !.fetch = fetch]
       /\ writeFailures' = writeFailures + (IF out.tick.wrote = "failed" THEN 1 ELSE 0)
       /\ failedSeen' = failedSeen \cup out.tick.obsFailed
       /\ notified' = Notified(notified, out.sched.log)
    /\ UNCHANGED <<spec, executors, mu, calls, registryVars, connectorVars, call>>

\* The sets of tasks whose pod one call fails to read: at most one task.
ObsFaults == {{}} \cup {{n} : n \in Observable}

\* How many tasks of the spec have no record yet: no more can be launched.
Unadmitted ==
    Cardinality({i \in 1..Len(spec) : ~HasStatus(stored.TaskStatuses, spec[i].Name)})

Reconcile ==
    \E fetch \in {"ok", "notfound", "error"}, obsErr \in ObsFaults,
       getErr \in BOOLEAN, failAt \in 0..Unadmitted, writeErr \in BOOLEAN :
        /\ fetch # "ok" => (obsErr = {} /\ ~getErr /\ failAt = 0 /\ ~writeErr)
        /\ getErr => obsErr # {}
        /\ ReconcileStep(fetch, obsErr, getErr, failAt, writeErr)

\* Reconcile with every call to the API server succeeding.
ReconcileOK == ReconcileStep("ok", {}, FALSE, 0, FALSE)

\* Reconcile whose status write fails, everything else succeeding.
ReconcileWriteFails == ReconcileStep("ok", {}, FALSE, 0, TRUE)

EnvUnchanged == UNCHANGED <<spec, stored, activeTasksPerDAG, totalActiveTasks,
                            executors, writeFailures, failedSeen, mu, calls,
                            registryVars, connectorVars, call, notified>>

\* The kubelet starts the pod's container.
PodStart ==
    \E p \in DOMAIN pods :
        /\ pods[p] \in {PodPending, PodUnknown}
        /\ pods' = [pods EXCEPT ![p] = PodRunning]
        /\ tick' = NoTick
        /\ EnvUnchanged

\* The container exits with status 0.
PodSucceed ==
    \E p \in DOMAIN pods :
        /\ pods[p] = PodRunning
        /\ pods' = [pods EXCEPT ![p] = PodSucceeded]
        /\ tick' = NoTick
        /\ EnvUnchanged

\* The container exits non-zero, or the pod cannot start.
PodFail ==
    \E p \in DOMAIN pods :
        /\ pods[p] \in {PodPending, PodRunning, PodUnknown}
        /\ pods' = [pods EXCEPT ![p] = PodFailed]
        /\ tick' = NoTick
        /\ EnvUnchanged

\* The node of a running pod stops reporting.
PodLost ==
    \E p \in DOMAIN pods :
        /\ pods[p] = PodRunning
        /\ pods' = [pods EXCEPT ![p] = PodUnknown]
        /\ tick' = NoTick
        /\ EnvUnchanged

\* Somebody deletes the pod.
PodDelete ==
    \E p \in DOMAIN pods :
        /\ pods' = MapDelete(pods, p)
        /\ tick' = NoTick
        /\ EnvUnchanged

\* Registry.Register of an executor that declares TaskTypeBogus and creates
\* pods as the pod executor does (a type no task of the Dag has is never
\* looked up, so its registration is left out).
Register ==
    /\ ~RegistryHas(executors, TaskTypeBogus)
    /\ \E i \in 1..Len(spec) : spec[i].Type = TaskTypeBogus
    /\ executors' = RegistryRegister(executors, CustomExecutor)
    /\ tick' = NoTick
    /\ UNCHANGED <<spec, stored, pods, activeTasksPerDAG, totalActiveTasks,
                   writeFailures, failedSeen, mu, calls, registryVars,
                   connectorVars, call, notified>>

\* The controller process is restarted: SetupComponents builds a new registry
\* with the pod executor and a new scheduler; the object store and the pods
\* are what they were.
Restart ==
    /\ \/ totalActiveTasks # 0
       \/ activeTasksPerDAG # EmptyMap
       \/ executors # InitialRegistry
    /\ activeTasksPerDAG' = EmptyMap
    /\ totalActiveTasks' = 0
    /\ executors' = InitialRegistry
    /\ tick' = NoTick
    /\ UNCHANGED <<spec, stored, pods, writeFailures, failedSeen, mu, calls,
                   registryVars, connectorVars, call, notified>>

(***************************************************************************)
(* Goroutines calling the scheduler's NotifyTaskStarted and                *)
(* NotifyTaskCompleted side by side.  A call waits for s.mu, reads the     *)
(* counters, writes them and releases s.mu on return.                      *)
(***************************************************************************)
Callers == {"g1", "g2"}
DagNames == {DagName, "other"}

IdleCall == [pc |-> "idle", op |-> "", dag |-> "",
             seen |-> [perDAG |-> EmptyMap, total |-> 0, log |-> << >>],
             ret |-> FALSE]

\* Mutant of MutexFree: the mutex is not taken.
MutexFree_Always(m) == TRUE

\* s.mu.Lock() returns when no goroutine holds the mutex.
MutexFree(m) == m = ""

\* A goroutine calls NotifyTaskStarted or NotifyTaskCompleted for a Dag.
NotifyCall(g) ==
    /\ calls[g].pc = "idle"
    /\ \E op \in {"started", "completed"}, d \in DagNames :
          /\ op = "started" =>
                (totalActiveTasks < MaxCount /\ MapGet(activeTasksPerDAG, d) < MaxCount)
          /\ calls' = [calls EXCEPT ![g] = [IdleCall EXCEPT !.pc = "waiting",
                                                            !.op = op, !.dag = d]]
    /\ UNCHANGED <<spec, stored, pods, activeTasksPerDAG, totalActiveTasks,
                   executors, writeFailures, tick, failedSeen, mu, registryVars,
                   connectorVars, call, notified>>

\* s.mu.Lock(), and the reads of the counters that follow it.
NotifyLock(g) ==
    /\ calls[g].pc = "waiting"
    /\ MutexFree(mu)
    /\ mu' = g
    /\ calls' = [calls EXCEPT ![g].pc = "locked",
                              ![g].seen = [perDAG |-> activeTasksPerDAG,
                                           total |-> totalActiveTasks,
                                           log |-> << >>]]
    /\ UNCHANGED <<spec, stored, pods, activeTasksPerDAG, totalActiveTasks,
                   executors, writeFailures, tick, failedSeen, registryVars,
                   connectorVars, call, notified>>

\* The writes of the counters, and the deferred s.mu.Unlock().
NotifyUnlock(g) ==
    /\ calls[g].pc = "locked"
    /\ \E out \in {IF calls[g].op = "started"
                    THEN NotifyTaskStarted(calls[g].seen, calls[g].dag, "t")
                    ELSE NotifyTaskCompleted(calls[g].seen, calls[g].dag, "t")} :
          /\ activeTasksPerDAG' = out.perDAG
          /\ totalActiveTasks' = out.total
    /\ mu' = ""
    /\ calls' = [calls EXCEPT ![g] = IdleCall]
    /\ UNCHANGED <<spec, stored, pods, executors, writeFailures, tick, failedSeen,
                   registryVars, connectorVars, call, notified>>

(***************************************************************************)
(* connector.Registry; a connector is [id, type], type what Type() returns *)
(***************************************************************************)
ConnectorTypes == {"kubeflow", "sagemaker", "spark"}
ConnectorPool == [id : {"c1", "c2"}, type : ConnectorTypes]

\* connector.NewRegistry
NewConnectorRegistry == [external |-> EmptyMap, cloud |-> EmptyMap]

\* Mutant of RegisterCloud: the connector is stored with the external ones.
RegisterCloud_IntoExternal(reg, conn) ==
    [reg EXCEPT !.external = MapPut(@, conn.type, conn.id)]

RegisterExternal(reg, conn) ==
    [reg EXCEPT !.external = MapPut(@, conn.type, conn.id)]

RegisterCloud(reg, conn) ==
    [reg EXCEPT !.cloud = MapPut(@, conn.type, conn.id)]

\* GetExternal and GetCloud: the connector ("" for nil) and whether an error
\* is returned.
GetExternal(reg, connType) ==
    IF connType \in DOMAIN reg.external
    THEN [conn |-> reg.external[connType], err |-> FALSE]
    ELSE [conn |-> "", err |-> TRUE]

GetCloud(reg, connType) ==
    IF connType \in DOMAIN reg.cloud
    THEN [conn |-> reg.cloud[connType], err |-> FALSE]
    ELSE [conn |-> "", err |-> TRUE]

HasExternal(reg, connType) == connType \in DOMAIN reg.external
HasCloud(reg, connType) == connType \in DOMAIN reg.cloud

\* The slices ExternalTypes and CloudTypes may return.
ExternalTypes(reg) == Orderings(DOMAIN reg.external)
CloudTypes(reg) == Orderings(DOMAIN reg.cloud)

ConnectorIdle == UNCHANGED <<spec, stored, pods, activeTasksPerDAG, totalActiveTasks,
                             executors, writeFailures, tick, failedSeen, mu, calls,
                             registryVars, call, notified>>

\* A call of RegisterExternal, from Lock to Unlock.
RegisterExternalCall ==
    /\ Len(connLog) < MaxRegisters
    /\ \E conn \in ConnectorPool :
          /\ connectors' = RegisterExternal(connectors, conn)
          /\ connLog' = Append(connLog, [family |-> "external", conn |-> conn])
    /\ ConnectorIdle

\* A call of RegisterCloud, from Lock to Unlock.
RegisterCloudCall ==
    /\ Len(connLog) < MaxRegisters
    /\ \E conn \in ConnectorPool :
          /\ connectors' = RegisterCloud(connectors, conn)
          /\ connLog' = Append(connLog, [family |-> "cloud", conn |-> conn])
    /\ ConnectorIdle

\* No call of a component has been made on its own.
NoCall == [op |-> "", dag |-> "", task |-> "", fault |-> FALSE,
           ret |-> [state |-> "", err |-> FALSE]]

(***************************************************************************)
(* The scheduler's Schedule called on its own, for a Dag with any status   *)
(* and a scheduler with any counters.                                      *)
(***************************************************************************)
ScheduleWorkflows == {WfDiamond, WfWide, WfStuck}

\* The status lists with one record each for some of the names, in any order
\* and with any states.
StatusLists(names) ==
    UNION {{[i \in 1..Len(order) |->
                [Name |-> order[i], State |-> states[order[i]],
                 PodName |-> StatusPodName(DagName, order[i]), Message |-> ""]] :
              order \in Orderings(some), states \in [some -> TaskStates]} :
           some \in SUBSET names}

\* The counters a scheduler may hold.
SchedulerCounters ==
    {[perDAG |-> IF n = 0 THEN EmptyMap ELSE MapPut(EmptyMap, DagName, n),
      total |-> t] : n \in 0..MaxCount, t \in {0, MaxCount}}

ScheduleIdle == UNCHANGED <<spec, pods, executors, writeFailures, tick, failedSeen,
                            mu, calls, registryVars, connectorVars, notified>>

\* A call of Schedule for the Dag.
ScheduleCall ==
    \E out \in {DefaultSchedulerSchedule(
                    [perDAG |-> activeTasksPerDAG, total |-> totalActiveTasks],
                    spec, stored.TaskStatuses)} :
        /\ call' = [NoCall EXCEPT !.op = "Schedule", !.dag = DagName, !.ret = out.next]
        /\ activeTasksPerDAG' = out.sched.perDAG
        /\ totalActiveTasks' = out.sched.total
        /\ UNCHANGED stored
        /\ ScheduleIdle

(***************************************************************************)
(* The pod executor called on its own, on a cluster that holds any pods.   *)
(***************************************************************************)
PodPhases == {PodPending, PodRunning, PodSucceeded, PodFailed, PodUnknown}
CallTasks == {TaskSpec("A", TaskTypeBash, << >>), TaskSpec("B", TaskTypeGo, << >>)}
ClusterPodNames == {"wf-A", "wf-B", "other-A"}

\* The pods a namespace may hold when the executor is called.
ClusterPods ==
    UNION {[names -> PodPhases] : names \in SUBSET ClusterPodNames}

ExecutorIdle == UNCHANGED <<spec, stored, activeTasksPerDAG, totalActiveTasks,
                            executors, writeFailures, tick, failedSeen, mu, calls,
                            registryVars, connectorVars, notified>>

\* A call of Executor.GetStatus; fault: the client's Get fails other than
\* not-found.
GetStatusCall ==
    \E dagName \in DagNames, task \in CallTasks, fault \in BOOLEAN :
        /\ call' = [op |-> "GetStatus", dag |-> dagName, task |-> task.Name,
                    fault |-> fault,
                    ret |-> GetStatus(pods, dagName, task, fault)]
        /\ UNCHANGED pods
        /\ ExecutorIdle

\* A call of Executor.Cleanup; fault: the client's Delete fails other than
\* not-found.
CleanupCall ==
    \E dagName \in DagNames, task \in CallTasks, fault \in BOOLEAN :
        \E out \in {Cleanup(pods, dagName, task, fault)} :
            /\ call' = [op |-> "Cleanup", dag |-> dagName, task |-> task.Name,
                        fault |-> fault,
                        ret |-> [state |-> "", err |-> out.err]]
            /\ pods' = out.pods
            /\ ExecutorIdle

\* Dags of one namespace and tasks with "-" in their names.
DashDags == {"a", "a-b"}
DashTasks == {TaskSpec("c", TaskTypeBash, << >>), TaskSpec("b-c", TaskTypeBash, << >>)}

\* A call of Executor.Execute for a task of a Dag; fault: the client's Create
\* fails other than already-exists.
ExecuteFor ==
    \E dagName \in DashDags, task \in DashTasks, fault \in BOOLEAN :
        \E out \in {Execute(pods, dagName, task, fault)} :
            /\ call' = [op |-> "Execute", dag |-> dagName, task |-> task.Name,
                        fault |-> fault,
                        ret |-> [state |-> "", err |-> out.err # NoError,
                                 created |-> out.created]]
            /\ pods' = out.pods
            /\ ExecutorIdle

\* A call of Executor.GetStatus for a task of a Dag.
GetStatusFor ==
    \E dagName \in DashDags, task \in DashTasks :
        /\ call' = [op |-> "GetStatus", dag |-> dagName, task |-> task.Name,
                    fault |-> FALSE,
                    ret |-> GetStatus(pods, dagName, task, FALSE)]
        /\ UNCHANGED pods
        /\ ExecutorIdle

(***************************************************************************)
(* Goroutines calling the executor registry side by side.  Register holds  *)
(* r.mu for writing while it stores each declared type; Get, Has and Types *)
(* hold it for reading.                                                    *)
(***************************************************************************)
RegMuFree == [writer |-> "", readers |-> {}, waiting |-> {}]

\* saw: the executors earlier Get calls of the goroutine have returned.
IdleRegCall == [pc |-> "idle", op |-> "", exec |-> "", kind |-> "",
                todo |-> << >>, saw |-> {}]

ExecutorById(id) == CHOOSE e \in ExecutorPool : e.id = id

\* Register calls begun and not yet logged.
RegistersInFlight ==
    Cardinality({g \in Callers : regCalls[g].op = "Register"})

\* Mutant of RegLockFree: Register does not wait for the mutex.
RegLockFree_Always(m) == TRUE

\* r.mu.Lock() returns when no goroutine holds the mutex in either mode.
RegLockFree(m) == m.writer = "" /\ m.readers = {}

\* r.mu.RLock() returns when no writer holds the mutex or waits for it.
RegRLockFree(m) == m.writer = "" /\ m.waiting = {}

RegistryIdle == UNCHANGED <<spec, stored, pods, activeTasksPerDAG, totalActiveTasks,
                            writeFailures, tick, failedSeen, mu, calls,
                            connectorVars, call, notified>>

\* A goroutine calls Register with an executor and blocks in r.mu.Lock().
RegisterBegin(g) ==
    /\ regCalls[g].pc = "idle"
    /\ Len(regLog) + RegistersInFlight < MaxRegisters
    /\ \E e \in ExecutorPool :
          regCalls' = [regCalls EXCEPT ![g].pc = "waiting", ![g].op = "Register",
                                       ![g].exec = e.id, ![g].kind = "",
                                       ![g].todo = e.types]
    /\ regMu' = [regMu EXCEPT !.waiting = @ \cup {g}]
    /\ UNCHANGED <<executors, regLog>>
    /\ RegistryIdle

\* r.mu.Lock() returns.
RegisterLock(g) ==
    /\ regCalls[g].pc = "waiting"
    /\ regCalls[g].op = "Register"
    /\ RegLockFree(regMu)
    /\ regMu' = [regMu EXCEPT !.writer = g, !.waiting = @ \ {g}]
    /\ regCalls' = [regCalls EXCEPT ![g].pc = "writing"]
    /\ UNCHANGED <<executors, regLog>>
    /\ RegistryIdle

\* One pass of "for _, taskType := range exec.Type()".
RegisterWrite(g) ==
    /\ regCalls[g].pc = "writing"
    /\ regCalls[g].todo # << >>
    /\ executors' = RegisterKind(executors, Head(regCalls[g].todo), regCalls[g].exec)
    /\ regCalls' = [regCalls EXCEPT ![g].todo = Tail(@)]
    /\ UNCHANGED <<regMu, regLog>>
    /\ RegistryIdle

\* The loop is over: the deferred r.mu.Unlock(), and Register returns.
RegisterUnlock(g) ==
    /\ regCalls[g].pc = "writing"
    /\ regCalls[g].todo = << >>
    /\ regMu' = [regMu EXCEPT !.writer = ""]
    /\ regLog' = Append(regLog, regCalls[g].exec)
    /\ regCalls' = [regCalls EXCEPT ![g] = [IdleRegCall EXCEPT !.saw = regCalls[g].saw]]
    /\ UNCHANGED executors
    /\ RegistryIdle

\* A goroutine calls Get, Has or Types and blocks in r.mu.RLock().
LookupBegin(g) ==
    /\ regCalls[g].pc = "idle"
    /\ \E op \in {"Get", "Has", "Types"}, k \in Kinds :
          /\ op = "Types" => k = TaskTypeBash
          /\ regCalls' = [regCalls EXCEPT ![g].pc = "waiting", ![g].op = op,
                                         ![g].kind = k]
    /\ UNCHANGED <<executors, regMu, regLog>>
    /\ RegistryIdle

\* r.mu.RLock() returns.
LookupRLock(g) ==
    /\ regCalls[g].pc = "waiting"
    /\ regCalls[g].op # "Register"
    /\ RegRLockFree(regMu)
    /\ regMu' = [regMu EXCEPT !.readers = @ \cup {g}]
    /\ regCalls' = [regCalls EXCEPT ![g].pc = "reading"]
    /\ UNCHANGED <<executors, regLog>>
    /\ RegistryIdle

\* The map is read, the deferred r.mu.RUnlock() runs and the call returns.
LookupReturn(g) ==
    /\ regCalls[g].pc = "reading"
    /\ regMu' = [regMu EXCEPT !.readers = @ \ {g}]
    /\ regCalls' = [regCalls EXCEPT ![g] =
          [IdleRegCall EXCEPT !.saw =
              regCalls[g].saw \cup
                  (IF regCalls[g].op = "Get" /\ ~RegistryGet(executors, regCalls[g].kind).err
                   THEN {RegistryGet(executors, regCalls[g].kind).exec} ELSE {})]]
    /\ UNCHANGED <<executors, regLog>>
    /\ RegistryIdle

\* A goroutine calls CanSchedule: s.mu.RLock() returns when no writer holds
\* the mutex; the call leaves its result with the goroutine.
CanScheduleCall(g) ==
    /\ calls[g].pc = "idle"
    /\ mu = ""
    /\ calls' = [calls EXCEPT ![g] =
                    [IdleCall EXCEPT !.op = "canSchedule",
                                     !.ret = CanSchedule([perDAG |-> activeTasksPerDAG,
                                                          total |-> totalActiveTasks])]]
    /\ UNCHANGED <<spec, stored, pods, activeTasksPerDAG, totalActiveTasks,
                   executors, writeFailures, tick, failedSeen, mu, registryVars,
                   connectorVars, call, notified>>

\* A Dag as created by the user, the controller as SetupComponents leaves it.
\* NewScheduler, and no goroutine inside a component yet.
ComponentsInit ==
    /\ activeTasksPerDAG = EmptyMap
    /\ totalActiveTasks = 0
    /\ mu = ""
    /\ calls = [g \in Callers |-> IdleCall]
    /\ regMu = RegMuFree
    /\ regCalls = [g \in Callers |-> IdleRegCall]
    /\ regLog = << >>
    /\ call = NoCall

\* connector.NewRegistry
ConnectorsInit ==
    /\ connectors = NewConnectorRegistry
    /\ connLog = << >>

\* A cluster in which the Dag has just been created.
ClusterInit ==
    /\ stored = [State |-> "", TaskStatuses |-> << >>]
    /\ pods = EmptyMap
    /\ writeFailures = 0
    /\ tick = NoTick
    /\ failedSeen = {}
    /\ notified = {}

Init ==
    /\ spec \in Workflows
    /\ executors = InitialRegistry
    /\ ClusterInit
    /\ ComponentsInit
    /\ ConnectorsInit

Next ==
    \/ Reconcile
    \/ PodStart
    \/ PodSucceed
    \/ PodFail
    \/ PodLost
    \/ PodDelete
    \/ Register
    \/ Restart

Spec == Init /\ [][Next]_vars

\* The controller with a Dag one of whose tasks can never be a candidate.
StuckInit ==
    /\ spec \in StuckWorkflows
    /\ executors = InitialRegistry
    /\ ClusterInit
    /\ ComponentsInit
    /\ ConnectorsInit

StuckSpec == StuckInit /\ [][Next]_vars

\* The executor registry alone, from NewRegistry on, called from several
\* goroutines; a call that can go on does (the mutex hands itself to a
\* blocked Lock in the end, whoever else asks for it).
RegistryInit ==
    /\ spec = WfEmpty
    /\ executors = EmptyMap
    /\ ClusterInit
    /\ ComponentsInit
    /\ ConnectorsInit

RegistryNext ==
    \E g \in Callers :
        \/ RegisterBegin(g)
        \/ RegisterLock(g)
        \/ RegisterWrite(g)
        \/ RegisterUnlock(g)
        \/ LookupBegin(g)
        \/ LookupRLock(g)
        \/ LookupReturn(g)

\* A goroutine inside a call keeps running, and sync.RWMutex starves nobody:
\* a Lock that waits holds new readers back, and Unlock lets the readers
\* that wait in before the next writer.
RegistryFairness ==
    \A g \in Callers :
        /\ SF_vars(RegisterLock(g))
        /\ WF_vars(RegisterWrite(g))
        /\ WF_vars(RegisterUnlock(g))
        /\ SF_vars(LookupRLock(g))
        /\ WF_vars(LookupReturn(g))

RegistrySpec == RegistryInit /\ [][RegistryNext]_vars /\ RegistryFairness

\* A connector for the vendor type.
VendorConnector == [id |-> "c1", type |-> TaskTypeVendor]

\* The controller with a Dag that has a task of the vendor type, the
\* connector for it registered.
DispatchInit ==
    /\ spec = WfVendor
    /\ executors = InitialRegistry
    /\ connectors = RegisterExternal(NewConnectorRegistry, VendorConnector)
    /\ connLog = <<[family |-> "external", conn |-> VendorConnector]>>
    /\ ClusterInit
    /\ ComponentsInit

DispatchNext ==
    \/ Reconcile
    \/ PodStart
    \/ PodSucceed
    \/ PodFail
    \/ PodLost
    \/ PodDelete
    \/ Restart

DispatchSpec == DispatchInit /\ [][DispatchNext]_vars

ScheduleInit ==
    /\ spec \in ScheduleWorkflows
    /\ stored \in [State : {StateRunning}, TaskStatuses : StatusLists(Range(Names(spec)))]
    /\ \E sched \in SchedulerCounters :
          /\ activeTasksPerDAG = sched.perDAG
          /\ totalActiveTasks = sched.total
    /\ executors = InitialRegistry
    /\ pods = EmptyMap
    /\ writeFailures = 0
    /\ tick = NoTick
    /\ failedSeen = {}
    /\ notified = {}
    /\ mu = ""
    /\ calls = [g \in Callers |-> IdleCall]
    /\ regMu = RegMuFree
    /\ regCalls = [g \in Callers |-> IdleRegCall]
    /\ regLog = << >>
    /\ call = NoCall
    /\ ConnectorsInit

ScheduleNext == ScheduleCall

ScheduleSpec == ScheduleInit /\ [][ScheduleNext]_vars

ExecutorInit ==
    /\ spec = WfEmpty
    /\ executors = InitialRegistry
    /\ stored = [State |-> "", TaskStatuses |-> << >>]
    /\ pods \in ClusterPods
    /\ writeFailures = 0
    /\ tick = NoTick
    /\ failedSeen = {}
    /\ notified = {}
    /\ ComponentsInit
    /\ ConnectorsInit

ExecutorNext == GetStatusCall \/ CleanupCall

ExecutorSpec == ExecutorInit /\ [][ExecutorNext]_vars

\* The pod executor called for the tasks of several Dags of one namespace,
\* and the pods going through their phases.
PodNameInit ==
    /\ spec = WfEmpty
    /\ executors = InitialRegistry
    /\ ClusterInit
    /\ ComponentsInit
    /\ ConnectorsInit

PodNameNext ==
    \/ ExecuteFor
    \/ GetStatusFor
    \/ PodStart
    \/ PodSucceed
    \/ PodFail

PodNameSpec == PodNameInit /\ [][PodNameNext]_vars

\* The connector registry alone, from NewRegistry on.
ConnectorNext == RegisterExternalCall \/ RegisterCloudCall

ConnectorInit ==
    /\ spec = WfEmpty
    /\ executors = InitialRegistry
    /\ ClusterInit
    /\ ComponentsInit
    /\ ConnectorsInit

ConnectorSpec == ConnectorInit /\ [][ConnectorNext]_vars

\* The scheduler alone, called from several goroutines.
CounterInit == Init /\ spec = WfEmpty

CounterNext ==
    \E g \in Callers :
        \/ NotifyCall(g)
        \/ NotifyLock(g)
        \/ NotifyUnlock(g)
        \/ CanScheduleCall(g)

CounterSpec == CounterInit /\ [][CounterNext]_vars

\* The behaviours in which every pod runs to success and the API server
\* serves every call but, up to MaxWriteFailures times, the status write; the
\* controller may be restarted.
NextLive ==
    \/ ReconcileOK
    \/ ReconcileWriteFails
    \/ PodStart
    \/ PodSucceed
    \/ Restart

\* ENABLED <<ReconcileOK>>_vars, computed from what Reconcile returns: the
\* call changes the status, the pods, the counters or the tick.
ReconcileOKEnabled ==
    \E out \in {ReconcileRun("ok", {}, FALSE, 0, FALSE)} :
        \/ stored # out.stored
        \/ pods # out.pods
        \/ activeTasksPerDAG # out.sched.perDAG
        \/ totalActiveTasks # out.sched.total
        \/ tick # out.tick
        \/ ~(out.tick.obsFailed \subseteq failedSeen)

\* WF_vars(ReconcileOK), with ENABLED written out as above.
FairReconcile == []<><<ReconcileOK>>_vars \/ []<>~ReconcileOKEnabled

\* Reconciliations keep being run and a write succeeds in the end; a created
\* pod is started and exits with status 0.
LiveSpec ==
    /\ Init
    /\ [][NextLive]_vars
    /\ FairReconcile
    /\ WF_vars(PodStart)
    /\ WF_vars(PodSucceed)


(***************************************************************************)
(* Properties                                                              *)
(***************************************************************************)
Reconciled == tick.kind = "reconcile"

\* The task of the spec named name (names are unique in Workflows).
TaskNamed(name) == spec[CHOOSE i \in 1..Len(spec) : spec[i].Name = name]

RecordNames(taskStatuses) == {taskStatuses[i].Name : i \in 1..Len(taskStatuses)}

\* Some record named name has state state.
HasRecordIn(taskStatuses, name, state) ==
    \E i \in 1..Len(taskStatuses) :
        taskStatuses[i].Name = name /\ taskStatuses[i].State = state

\* C1: every task a reconciliation admits (appends a Pending record for and
\* passes to Runner.Run) has each of its dependencies recorded Completed in
\* the status as syncStatus of that reconciliation left it; the records a
\* reconciliation adds are those of the tasks it admitted.
C1_AdmittedAfterDependencies ==
    Reconciled =>
        /\ \A k \in 1..Len(tick.launched) :
              \A d \in Range(TaskNamed(tick.launched[k]).Dependencies) :
                  HasRecordIn(tick.observed.TaskStatuses, d, StateCompleted)
        /\ tick.wrote = "ok" =>
              RecordNames(stored.TaskStatuses)
                  \ RecordNames(tick.observed.TaskStatuses) = Range(tick.launched)

\* C1, its case: the join C of WfJoin has just been admitted.
C1_Witness ==
    /\ Reconciled
    /\ spec = WfJoin
    /\ \E k \in 1..Len(tick.launched) : tick.launched[k] = "C"

\* C2: when syncStatus finds the pod of a task with a Pending or Running
\* record failed, the status in the object store after that reconciliation
\* (one that returns no error) has the task's record Failed and the Dag
\* Failed.
C2_ObservedFailureStored ==
    (Reconciled /\ tick.obsFailed # {} /\ tick.err = NoError) =>
        /\ stored.State = StateFailed
        /\ \A n \in tick.obsFailed : HasRecordIn(stored.TaskStatuses, n, StateFailed)

\* C3: the stored status never holds more than MaxActiveTasks records in
\* state Pending or Running.
C3_ActiveWithinLimit == ActiveCount(stored.TaskStatuses) <= MaxActiveTasks

\* C3, its case: the limit is reached while a task with no unmet dependency
\* is still waiting for a slot.
C3_Witness ==
    /\ ActiveCount(stored.TaskStatuses) = MaxActiveTasks
    /\ \E i \in 1..Len(spec) : IsCandidate(stored.TaskStatuses, spec[i])

\* Every task of the spec has exactly one record, and it is Completed.
AllTasksCompleted(status) ==
    /\ Len(status.TaskStatuses) = Len(spec)
    /\ \A i \in 1..Len(spec) :
          HasRecordIn(status.TaskStatuses, spec[i].Name, StateCompleted)

AllTypesRegistered == \A i \in 1..Len(spec) : RegistryHas(executors, spec[i].Type)

\* C4: a Dag with unique task names, dependencies on earlier tasks only and
\* registered task types, reconciled again and again while its pods run to
\* success, is in the end stored Completed with one Completed record per task.
C4_EventuallyCompleted ==
    (ValidWorkflow(spec) /\ AllTypesRegistered)
        => <>(stored.State = StateCompleted /\ AllTasksCompleted(stored))

\* C4, its case: the three tasks of WfJoin have completed after a status
\* write had failed on the way.
C4_Witness ==
    /\ spec = WfJoin
    /\ writeFailures > 0
    /\ stored.State = StateCompleted
    /\ AllTasksCompleted(stored)

\* C5: a reconciliation that reaches updateDAGState stores Completed exactly
\* when every task of the spec has a Completed record, and the stored state
\* is never Completed while a task has no record or a record in another state.
C5_CompletedIffAllCompleted ==
    /\ (Reconciled /\ tick.wrote = "ok" /\ tick.err = NoError) =>
          (stored.State = StateCompleted <=> AllTasksCompleted(stored))
    /\ stored.State = StateCompleted => AllTasksCompleted(stored)

\* C5, its case: a reconciliation has just stored Completed for a Dag with
\* tasks.
C5_Witness ==
    /\ Reconciled /\ tick.wrote = "ok" /\ tick.err = NoError
    /\ spec # WfEmpty
    /\ stored.State = StateCompleted

\* C6: once the stored Dag state is Completed or Failed, a reconciliation
\* leaves the stored status as it is and creates no pod.
C6_TerminalDagFrozen ==
    [][(stored.State \in TerminalStates /\ tick'.kind = "reconcile") =>
          (stored' = stored /\ tick'.created = {})]_vars

\* C6, its case: a reconciliation has run on a Dag stored Failed, one of whose
\* pods has succeeded since.
C6_Witness ==
    /\ Reconciled
    /\ tick.observed.State = StateFailed
    /\ stored.State = StateFailed
    /\ \E p \in DOMAIN pods : pods[p] = PodSucceeded

\* C7: a stored record in state Completed or Failed keeps its state in every
\* step.
C7_TerminalRecordFrozen ==
    [][\A i \in 1..Len(stored.TaskStatuses) :
          stored.TaskStatuses[i].State \in TerminalStates =>
              /\ i <= Len(stored'.TaskStatuses)
              /\ stored'.TaskStatuses[i].Name = stored.TaskStatuses[i].Name
              /\ stored'.TaskStatuses[i].State = stored.TaskStatuses[i].State]_vars

\* C7, its case: a reconciliation has written the status of a Dag that has a
\* Completed record whose pod no longer exists.
C7_Witness ==
    /\ Reconciled
    /\ tick.wrote = "ok"
    /\ \E i \in 1..Len(stored.TaskStatuses) :
          /\ stored.TaskStatuses[i].State = StateCompleted
          /\ stored.TaskStatuses[i].PodName \notin DOMAIN pods

\* The states a record may take after state from, by the order
\* Pending, Running, then Completed or Failed.
LaterStates(from) ==
    IF from = StatePending THEN TaskStates
    ELSE IF from = StateRunning THEN {StateRunning, StateCompleted, StateFailed}
    ELSE {from}

\* C8: the states of a task's record follow Pending, Running, then Completed
\* or Failed (Running may be skipped); a Running record never goes back to
\* Pending.
C8_RecordStatesInOrder ==
    [][\A i \in 1..Len(stored.TaskStatuses) :
          /\ i <= Len(stored'.TaskStatuses)
          /\ stored'.TaskStatuses[i].State \in LaterStates(stored.TaskStatuses[i].State)]_vars

\* A task the last reconciliation passed to Runner.Run while its type had no
\* executor.
LaunchedUnregistered ==
    {n \in Range(tick.launched) : ~RegistryHas(executors, TaskNamed(n).Type)}

NoExecutorRecord(r) == r.State = StateFailed /\ r.Message = ErrNoExecutor

StateBeforeFailure(n) ==
    IF n \in Range(tick.launched) THEN StatePending
    ELSE StatusState(tick.observed.TaskStatuses, n)

C11_MissingResourceRecreated ==
    (Reconciled /\ tick.err = NoError /\ tick.wrote = "ok") =>
        \A i \in 1..Len(stored.TaskStatuses) :
            stored.TaskStatuses[i].State \in {StatePending, StateRunning} =>
                stored.TaskStatuses[i].PodName \in DOMAIN pods

\* The tasks the last reconciliation passed to Execute although their pod
\* existed, leaving out the one Run returned an error for (its Create was
\* made to fail, or the registry had no executor and Execute was not called).
Relaunched(podMap) ==
    {tick'.launched[k] : k \in {j \in 1..Len(tick'.launched) :
        /\ getPodName(DagName, tick'.launched[j]) \in DOMAIN podMap
        /\ ~(tick'.err \in {ErrCreatePod, ErrNoExecutor} /\ j = Len(tick'.launched))}}

\* C12: Execute for a task whose pod exists succeeds, creates nothing and
\* leaves the pod as it is, so that a task launched again after a failed
\* status write has the one pod of its first launch.
C12_ExecuteIdempotent ==
    [][tick'.kind = "reconcile" =>
          \A n \in Relaunched(pods) :
              /\ getPodName(DagName, n) \notin tick'.created
              /\ getPodName(DagName, n) \in DOMAIN pods'
              /\ pods'[getPodName(DagName, n)] = pods[getPodName(DagName, n)]
              /\ tick'.wrote = "ok" =>
                    HasRecordIn(stored'.TaskStatuses, n, StatePending)]_vars

\* C12, its case: a task was launched a second time while the pod of its
\* first launch was running.
C12_Witness ==
    /\ Reconciled
    /\ writeFailures > 0
    /\ \E k \in 1..Len(tick.launched) :
          /\ getPodName(DagName, tick.launched[k]) \notin tick.created
          /\ getPodName(DagName, tick.launched[k]) \in DOMAIN pods
          /\ pods[getPodName(DagName, tick.launched[k])] = PodRunning

\* A reconciliation has run to its end: it wrote the status, or it found the
\* Dag terminal.
RanToCompletion ==
    /\ Reconciled
    /\ tick.err = NoError
    /\ (tick.wrote = "ok" \/ tick.observed.State \in TerminalStates)

\* C13: a reconciliation that follows one that ran to its end, with no pod
\* changed in between, leaves the stored status as it is and creates no pod.
C13_ReconcileIdempotent ==
    [][(RanToCompletion /\ ReconcileOK) =>
          (stored' = stored /\ pods' = pods /\ tick'.created = {})]_vars

\* C14: when a reconciliation that returns no error observes a task with a
\* Pending or Running record and the executor reports state S for it, the
\* record stored after that reconciliation is in state S.
C14_ObservationStored ==
    [][(tick'.kind = "reconcile" /\ tick'.err = NoError
            /\ Len(tick'.observed.TaskStatuses) = Len(stored.TaskStatuses)) =>
          \A i \in 1..Len(stored.TaskStatuses) :
              LET S == RunnerGetStatus(executors, pods, DagName,
                                       TaskNamed(stored.TaskStatuses[i].Name),
                                       FALSE).state
              IN (/\ stored.TaskStatuses[i].State \in {StatePending, StateRunning}
                  /\ tick'.observed.TaskStatuses[i].State = S)
                     => stored'.TaskStatuses[i].State = S]_vars

\* The scheduler is as NewDefaultScheduler leaves it.
FreshScheduler == totalActiveTasks = 0 /\ activeTasksPerDAG = EmptyMap

\* Some record is Pending while its pod is running.
PendingWithRunningPod ==
    \E i \in 1..Len(stored.TaskStatuses) :
        /\ stored.TaskStatuses[i].State = StatePending
        /\ stored.TaskStatuses[i].PodName \in DOMAIN pods
        /\ pods[stored.TaskStatuses[i].PodName] = PodRunning

\* C15: a reconciliation by a controller whose scheduler is new, for a Dag
\* with a Pending record whose pod is running, creates no pod and no record
\* for that task and stores the record Running; from there a Dag with valid
\* dependencies and registered types is in the end stored Completed; the
\* scheduler's counters are never negative.
C15_RestartResumes ==
    /\ [][(FreshScheduler /\ ReconcileOK) =>
            \A i \in 1..Len(stored.TaskStatuses) :
                (/\ stored.TaskStatuses[i].State = StatePending
                 /\ stored.TaskStatuses[i].PodName \in DOMAIN pods
                 /\ pods[stored.TaskStatuses[i].PodName] = PodRunning)
                    => /\ stored.TaskStatuses[i].PodName \notin tick'.created
                       /\ stored.TaskStatuses[i].Name \notin Range(tick'.launched)
                       /\ Cardinality({j \in 1..Len(stored'.TaskStatuses) :
                             stored'.TaskStatuses[j].Name
                                 = stored.TaskStatuses[i].Name}) = 1
                       /\ stored'.TaskStatuses[i].State = StateRunning]_vars
    /\ (FreshScheduler /\ PendingWithRunningPod
            /\ ValidWorkflow(spec) /\ AllTypesRegistered)
          ~> (stored.State = StateCompleted /\ AllTasksCompleted(stored))
    /\ [](/\ totalActiveTasks >= 0
          /\ \A d \in DOMAIN activeTasksPerDAG : activeTasksPerDAG[d] >= 0)

\* C15, its case: a record is Running and the Dag not finished, while the
\* scheduler counts no active task: the controller was restarted after the
\* launch and has reconciled since.
C15_Witness ==
    /\ Reconciled
    /\ FreshScheduler
    /\ stored.State = StateRunning
    /\ \E i \in 1..Len(stored.TaskStatuses) :
          stored.TaskStatuses[i].State = StateRunning

\* C16: once syncStatus has turned a record of the Dag Failed, no
\* reconciliation passes a task to Runner.Run, creates a pod or adds a record.
C16_NoAdmissionAfterFailure ==
    [][(failedSeen # {} /\ tick'.kind = "reconcile") =>
          /\ tick'.launched = << >>
          /\ tick'.created = {}
          /\ RecordNames(stored'.TaskStatuses) \subseteq RecordNames(stored.TaskStatuses)]_vars

\* C17: in the stored status no two records have the same name and every
\* record is named after a task of the spec; a record is added only in a
\* reconciliation that passed its task to Runner.Run, and a task that has a
\* record after syncStatus is not passed to Runner.Run.
C17_OneRecordPerAdmittedTask ==
    [][/\ \A i, j \in 1..Len(stored'.TaskStatuses) :
             stored'.TaskStatuses[i].Name = stored'.TaskStatuses[j].Name => i = j
       /\ RecordNames(stored'.TaskStatuses) \subseteq Range(Names(spec))
       /\ RecordNames(stored'.TaskStatuses) \ RecordNames(stored.TaskStatuses)
             \subseteq Range(tick'.launched)
       /\ Range(tick'.launched)
             \cap RecordNames(tick'.observed.TaskStatuses) = {}]_vars

\* C17, its case: every task of WfJoin has its record, in a run in which a
\* status write had failed.
C17_Witness ==
    /\ spec = WfJoin
    /\ writeFailures > 0
    /\ Len(stored.TaskStatuses) = 3

\* C18: the stored Dag state is Failed exactly when some stored record is
\* Failed; in particular no record is Failed while the Dag is stored Running.
C18_FailedIffRecordFailed ==
    /\ stored.State = StateFailed <=>
          \E i \in 1..Len(stored.TaskStatuses) :
              stored.TaskStatuses[i].State = StateFailed
    /\ stored.State = StateRunning =>
          \A i \in 1..Len(stored.TaskStatuses) :
              stored.TaskStatuses[i].State # StateFailed

\* C18, its case: the Dag is stored Failed, with a record that is not Failed
\* next to the one that is.
C18_Witness ==
    /\ stored.State = StateFailed
    /\ \E i, j \in 1..Len(stored.TaskStatuses) :
          /\ stored.TaskStatuses[i].State = StateFailed
          /\ stored.TaskStatuses[j].State # StateFailed

\* C19: the PodName of every stored record, the name of every pod Execute
\* creates and the name GetStatus reads for the record's task are one string,
\* the Dag's name, "-", the task's name; no other pod exists.
C19_OneResourceName ==
    /\ \A i \in 1..Len(stored.TaskStatuses) :
          /\ stored.TaskStatuses[i].PodName
                = DagName \o "-" \o stored.TaskStatuses[i].Name
          /\ getPodName(DagName, stored.TaskStatuses[i].Name)
                = stored.TaskStatuses[i].PodName
    /\ tick.created \subseteq {DagName \o "-" \o n : n \in Range(tick.launched)}
    /\ \A p \in DOMAIN pods : \E i \in 1..Len(spec) : p = DagName \o "-" \o spec[i].Name

\* C19, its case: a record stored from Runner.Run's result has been observed
\* Running through the pod of its name.
C19_Witness ==
    \E i \in 1..Len(stored.TaskStatuses) :
        /\ stored.TaskStatuses[i].Message = MsgStarted
        /\ stored.TaskStatuses[i].State = StateRunning
        /\ stored.TaskStatuses[i].PodName \in DOMAIN pods
        /\ pods[stored.TaskStatuses[i].PodName] = PodRunning

\* C20: a NotifyTaskStarted call that returns has raised the total and the
\* Dag's counter by one, a NotifyTaskCompleted call that returns has lowered
\* each by one unless it was zero, both as of the moment of the return and
\* leaving the other Dags' counters alone; no counter is negative and the
\* per-Dag map holds no zero.
C20_CountersSerialised ==
    [][/\ \A g \in Callers :
             (calls[g].pc = "locked" /\ calls'[g].pc = "idle") =>
                 /\ calls[g].op = "started" =>
                       /\ totalActiveTasks' = totalActiveTasks + 1
                       /\ MapGet(activeTasksPerDAG', calls[g].dag)
                             = MapGet(activeTasksPerDAG, calls[g].dag) + 1
                 /\ calls[g].op = "completed" =>
                       /\ totalActiveTasks'
                             = IF totalActiveTasks > 0 THEN totalActiveTasks - 1 ELSE 0
                       /\ MapGet(activeTasksPerDAG', calls[g].dag)
                             = IF MapGet(activeTasksPerDAG, calls[g].dag) > 0
                               THEN MapGet(activeTasksPerDAG, calls[g].dag) - 1
                               ELSE 0
                 /\ \A d \in DagNames \ {calls[g].dag} :
                       MapGet(activeTasksPerDAG', d) = MapGet(activeTasksPerDAG, d)
       /\ totalActiveTasks' >= 0
       /\ \A d \in DOMAIN activeTasksPerDAG' : activeTasksPerDAG'[d] > 0]_vars

\* C20, its case: a completion without a start has emptied the total while
\* one Dag still counts a task, and a goroutine waits for the mutex that the
\* other holds.
C20_Witness ==
    /\ totalActiveTasks = 0
    /\ activeTasksPerDAG # EmptyMap
    /\ \E g, h \in Callers : calls[g].pc = "locked" /\ calls[h].pc = "waiting"

\* C21: a CanSchedule call returns true exactly when totalActiveTasks is
\* below MaxActiveTasks, and leaves the counters and the mutex as they were.
C21_CanScheduleBelowLimit ==
    [][\A g \in Callers :
          (calls'[g].op = "canSchedule" /\ calls'[g] # calls[g]) =>
              /\ calls'[g].ret <=> (totalActiveTasks < MaxActiveTasks)
              /\ UNCHANGED <<activeTasksPerDAG, totalActiveTasks, mu>>]_vars

\* C21, its case: a call has answered false with the counter at the limit,
\* another true.
C21_Witness ==
    \E g, h \in Callers :
        /\ calls[g].op = "canSchedule" /\ ~calls[g].ret
        /\ calls[h].op = "canSchedule" /\ calls[h].ret


(***************************************************************************)
(* The executor registry                                                   *)
(***************************************************************************)
\* The executors whose Register call has returned and that declare a type.
Declaring(taskType) ==
    {i \in 1..Len(regLog) : \E j \in 1..Len(ExecutorById(regLog[i]).types) :
                               ExecutorById(regLog[i]).types[j] = taskType}

Max(S) == CHOOSE x \in S : \A y \in S : y <= x

\* No Register call is between its Lock and its Unlock.
NoRegisterRunning == \A g \in Callers : regCalls[g].pc # "writing"

\* C22: after any sequence of Register calls, Has(k) is true and Get(k)
\* succeeds exactly for the kinds k that some registered executor declares;
\* Get(k) returns the executor of the most recent Register call that declared
\* k; Get of a kind never registered returns an error and no executor; Types
\* returns exactly the registered kinds, each once.
C22_RegistryLookups ==
    NoRegisterRunning =>
        /\ \A k \in Kinds :
              /\ RegistryHas(executors, k) <=> Declaring(k) # {}
              /\ ~RegistryGet(executors, k).err <=> Declaring(k) # {}
              /\ Declaring(k) # {} =>
                    RegistryGet(executors, k).exec = regLog[Max(Declaring(k))]
              /\ Declaring(k) = {} => RegistryGet(executors, k) = [exec |-> "", err |-> TRUE]
        /\ \A types \in RegistryTypes(executors) :
              /\ Range(types) = {k \in Kinds : Declaring(k) # {}}
              /\ \A i, j \in 1..Len(types) : types[i] = types[j] => i = j

\* C22 witness: two executors that declare the same kind have been registered
\* one after the other, and a third kind has never been registered.
C22_Witness ==
    /\ NoRegisterRunning
    /\ regLog = <<"custom", "alt">>
    /\ RegistryGet(executors, TaskTypeBogus).exec = "alt"
    /\ RegistryGet(executors, TaskTypeBash).err


\* Inside Register's critical section, and inside a reader's.
InWrite(g) == regCalls[g].pc = "writing"
InRead(g) == regCalls[g].pc = "reading"

\* The types an executor declares.
TypesOf(id) == Range(ExecutorById(id).types)

\* A writer is alone in its critical section.
WriterAlone ==
    \A g, h \in Callers : (InWrite(g) /\ g # h) => ~InWrite(h) /\ ~InRead(h)

\* A Get or Has that returns a miss for a kind was not preceded, in the same
\* goroutine, by a Get that returned an executor declaring the kind.
SeesWholeRegistrations ==
    \A g \in Callers :
        (/\ InRead(g)
         /\ regCalls'[g].pc = "idle"
         /\ regCalls[g].op \in {"Get", "Has"}
         /\ ~RegistryHas(executors, regCalls[g].kind))
            => \A id \in regCalls[g].saw : regCalls[g].kind \notin TypesOf(id)

\* C24: under any interleaving of concurrent Register and Get/Has/Types calls
\* a writer is never inside its critical section together with a reader or
\* another writer, every call returns, and no goroutine sees one kind of an
\* executor registered and afterwards another kind of it unregistered.
C24_RegistryConcurrency ==
    /\ []WriterAlone
    /\ [][SeesWholeRegistrations]_vars
    /\ \A g \in Callers : (regCalls[g].pc # "idle") ~> (regCalls[g].pc = "idle")

\* C24 witness: a goroutine that has got an executor declaring two kinds from
\* Get waits to read while the other goroutine is inside Register.
C24_Witness ==
    \E g, h \in Callers :
        /\ InWrite(g)
        /\ regCalls[g].todo # << >>
        /\ regCalls[h].pc = "waiting"
        /\ regCalls[h].op = "Get"
        /\ "alt" \in regCalls[h].saw


(***************************************************************************)
(* The connector registry                                                  *)
(***************************************************************************)
\* The calls that registered a connector of a type in a family.
Registered(family, connType) ==
    {i \in 1..Len(connLog) : /\ connLog[i].family = family
                             /\ connLog[i].conn.type = connType}

\* C23: after any sequence of RegisterExternal and RegisterCloud calls,
\* HasExternal(t) and GetExternal(t) succeed exactly for the types registered
\* through RegisterExternal, HasCloud(t) and GetCloud(t) exactly for those
\* registered through RegisterCloud; Get returns the connector registered
\* last for the type and an error on a miss; ExternalTypes and CloudTypes list
\* exactly the registered types, each once.
C23_ConnectorLookups ==
    /\ \A t \in ConnectorTypes :
          /\ HasExternal(connectors, t) <=> Registered("external", t) # {}
          /\ HasCloud(connectors, t) <=> Registered("cloud", t) # {}
          /\ GetExternal(connectors, t) =
                IF Registered("external", t) = {} THEN [conn |-> "", err |-> TRUE]
                ELSE [conn |-> connLog[Max(Registered("external", t))].conn.id,
                      err |-> FALSE]
          /\ GetCloud(connectors, t) =
                IF Registered("cloud", t) = {} THEN [conn |-> "", err |-> TRUE]
                ELSE [conn |-> connLog[Max(Registered("cloud", t))].conn.id,
                      err |-> FALSE]
    /\ \A types \in ExternalTypes(connectors) :
          /\ Range(types) = {t \in ConnectorTypes : Registered("external", t) # {}}
          /\ \A i, j \in 1..Len(types) : types[i] = types[j] => i = j
    /\ \A types \in CloudTypes(connectors) :
          /\ Range(types) = {t \in ConnectorTypes : Registered("cloud", t) # {}}
          /\ \A i, j \in 1..Len(types) : types[i] = types[j] => i = j

\* C23 witness: the same type has been registered in both families with
\* different connectors, and another type in neither.
C23_Witness ==
    /\ GetExternal(connectors, "kubeflow").conn = "c1"
    /\ GetCloud(connectors, "kubeflow").conn = "c2"
    /\ ~HasExternal(connectors, "spark")
    /\ ~HasCloud(connectors, "spark")


(***************************************************************************)
(* The pod executor                                                        *)
(***************************************************************************)
\* The pod a call of the executor is about.
CallPod(c) == c.dag \o "-" \o c.task

\* C25: GetStatus returns Completed for the phase Succeeded, Failed for
\* Failed, Running for Running and Pending for every other phase; when the pod
\* W-T does not exist it returns Pending and no error; any other failure of
\* the read is returned as an error.
C25_GetStatusMapping ==
    [][(call'.op = "GetStatus" /\ call' # call) =>
          LET p == CallPod(call') IN
          /\ call'.fault => call'.ret.err
          /\ (~call'.fault /\ p \notin DOMAIN pods) =>
                call'.ret = [state |-> StatePending, err |-> FALSE]
          /\ (~call'.fault /\ p \in DOMAIN pods) =>
                /\ ~call'.ret.err
                /\ pods[p] = PodSucceeded => call'.ret.state = StateCompleted
                /\ pods[p] = PodFailed => call'.ret.state = StateFailed
                /\ pods[p] = PodRunning => call'.ret.state = StateRunning
                /\ pods[p] \notin {PodSucceeded, PodFailed, PodRunning} =>
                      call'.ret.state = StatePending]_vars

\* C25 witness: GetStatus has returned Pending for a pod whose phase is
\* Unknown, beside a pod of the other workflow that has succeeded.
C25_Witness ==
    /\ call.op = "GetStatus"
    /\ ~call.fault
    /\ CallPod(call) = "wf-A"
    /\ "wf-A" \in DOMAIN pods /\ pods["wf-A"] = PodUnknown
    /\ "other-A" \in DOMAIN pods /\ pods["other-A"] = PodSucceeded
    /\ call.ret = [state |-> StatePending, err |-> FALSE]

\* C26: Cleanup of workflow W's task T leaves no pod named W-T and returns
\* success, whether the pod existed or not, and deletes no other pod; when the
\* delete request itself fails, the error is returned and no pod is deleted.
C26_CleanupRemovesOnlyItsPod ==
    [][(call'.op = "Cleanup" /\ (call' # call \/ pods' # pods)) =>
          LET p == CallPod(call') IN
          /\ ~call'.fault => (p \notin DOMAIN pods' /\ ~call'.ret.err)
          /\ call'.fault => (call'.ret.err /\ pods' = pods)
          /\ DOMAIN pods' \subseteq DOMAIN pods
          /\ \A q \in DOMAIN pods \ {p} : q \in DOMAIN pods' /\ pods'[q] = pods[q]]_vars

\* C26 witness: Cleanup has succeeded for a pod that is not there, with the
\* pods of another task and of another workflow in place.
C26_Witness ==
    /\ call.op = "Cleanup"
    /\ ~call.fault
    /\ ~call.ret.err
    /\ CallPod(call) = "wf-A"
    /\ DOMAIN pods = {"wf-B", "other-A"}


(***************************************************************************)
(* Task types and registries                                               *)
(***************************************************************************)
\* The task types of the model that begin with a vendor and a slash.
ConnectorTagged == {TaskTypeVendor}

\* The last launch of the reconciliation, of the task named n, was answered
\* by the executor registry: it had no executor for the task's type.
ExecutorRegistryMissed(n) ==
    /\ tick.err = ErrNoExecutor
    /\ tick.launched # << >>
    /\ tick.launched[Len(tick.launched)] = n

\* C27: the launch of a task whose type carries a vendor prefix goes to the
\* connector registry and not to the executor registry: with the connector
\* registered, it does not fail for want of an executor.
C27_VendorKindsUseConnectors ==
    Reconciled =>
        \A n \in Range(tick.launched) :
            (/\ TaskNamed(n).Type \in ConnectorTagged
             /\ HasExternal(connectors, TaskNamed(n).Type))
                => ~ExecutorRegistryMissed(n)


(***************************************************************************)
(* Schedule                                                                *)
(***************************************************************************)
\* The places in the spec of the tasks that have no record and whose
\* dependencies each have a Completed record.
ReadyPlaces ==
    {i \in 1..Len(spec) :
        /\ \A r \in Range(stored.TaskStatuses) : r.Name # spec[i].Name
        /\ \A dep \in Range(spec[i].Dependencies) :
              \E r \in Range(stored.TaskStatuses) :
                  r.Name = dep /\ r.State = StateCompleted}

\* MaxActiveTasks minus the number of records Pending or Running.
FreeSlots ==
    MaxActiveTasks - Cardinality({i \in DOMAIN stored.TaskStatuses :
        stored.TaskStatuses[i].State \in {StatePending, StateRunning}})

\* The k-th place of a set of places, counted from the lowest.
PlaceNo(places, k) ==
    CHOOSE i \in places : Cardinality({j \in places : j < i}) = k - 1

Min(a, b) == IF a < b THEN a ELSE b

\* C28: Schedule returns the first min(n, slots) candidates in the order of
\* the spec, the candidates being the n tasks without record whose
\* dependencies all have Completed records and slots being MaxActiveTasks
\* minus the number of records Pending or Running; it returns nothing when
\* slots <= 0; so with one slot left and a task ready exactly one is admitted.
C28_ScheduleFirstCandidates ==
    call.op = "Schedule" =>
        /\ FreeSlots <= 0 => call.ret = << >>
        /\ FreeSlots > 0 =>
              /\ Len(call.ret) = Min(Cardinality(ReadyPlaces), FreeSlots)
              /\ \A k \in 1..Len(call.ret) : call.ret[k] = spec[PlaceNo(ReadyPlaces, k)]
        /\ (FreeSlots = 1 /\ ReadyPlaces # {}) => Len(call.ret) = 1

\* C28 witness: in the diamond, with A Completed and nothing else recorded,
\* Schedule has returned B and C together.
C28_Witness ==
    /\ call.op = "Schedule"
    /\ spec = WfDiamond
    /\ Names(call.ret) = <<"B", "C">>
    /\ Cardinality(ReadyPlaces) = 2
    /\ FreeSlots = MaxActiveTasks

\* C29: what Schedule returns depends on the spec, the Dag's status records
\* and MaxActiveTasks only: a scheduler with any other counters returns the
\* same list for the same Dag; and Schedule changes neither the counters nor
\* the status.
C29_ScheduleIgnoresCounters ==
    [][(call'.op = "Schedule" /\ call' # call) =>
          /\ \A other \in SchedulerCounters :
                DefaultSchedulerSchedule(other, spec, stored.TaskStatuses).next = call'.ret
          /\ UNCHANGED <<activeTasksPerDAG, totalActiveTasks, stored>>]_vars

\* C29 witness: Schedule has admitted tasks for a Dag without active record
\* although the scheduler's total counter stands at the limit or above.
C29_Witness ==
    /\ call.op = "Schedule"
    /\ call.ret # << >>
    /\ totalActiveTasks >= MaxActiveTasks
    /\ MapGet(activeTasksPerDAG, DagName) >= MaxActiveTasks

(***************************************************************************)
(* The order of the scheduler's notifications                              *)
(***************************************************************************)
\* The tasks for which op is called before place i of a log.
CalledBefore(log, i, op) == {log[j].task : j \in {k \in 1..(i - 1) : log[k].op = op}}

\* C30: for every task NotifyTaskStarted comes before any NotifyTaskCompleted
\* for it, on every path.  Every NotifyTaskCompleted for a task follows a
\* NotifyTaskStarted for it, made earlier in the same Reconcile (an error of
\* the launch) or in an earlier one (a terminal state observed, by the
\* executor or by the fallback).  And no NotifyTaskStarted comes after: it is
\* called only for a task that has no stored record and for which this
\* Reconcile has not called NotifyTaskCompleted, while the observation calls
\* NotifyTaskCompleted only for tasks with a stored record, and stored records
\* stay.
C30_StartedBeforeCompleted ==
    [][/\ RecordNames(stored.TaskStatuses) \subseteq RecordNames(stored'.TaskStatuses)
       /\ tick'.kind = "reconcile" =>
             LET log == tick'.notifications IN
             \A i \in 1..Len(log) :
                 /\ log[i].op = "completed" =>
                       /\ \/ log[i].task \in notified
                          \/ log[i].task \in CalledBefore(log, i, "started")
                       /\ \/ HasStatus(stored.TaskStatuses, log[i].task)
                          \/ log[i].task \in CalledBefore(log, i, "started")
                 /\ log[i].op = "started" =>
                       /\ ~HasStatus(stored.TaskStatuses, log[i].task)
                       /\ log[i].task \notin CalledBefore(log, i, "completed")]_vars

\* C30 witness: a Reconcile has told the scheduler of the end of a task whose
\* pod failed, started in an earlier Reconcile, and then of the start and the
\* end of a task whose pod could not be created.
C30_Witness ==
    /\ Reconciled
    /\ tick.err = ErrCreatePod
    /\ \E i, j, k \in 1..Len(tick.notifications) :
          /\ i < j /\ j < k
          /\ tick.notifications[i].op = "completed"
          /\ tick.notifications[j].op = "started"
          /\ tick.notifications[k].op = "completed"
          /\ tick.notifications[j].task = tick.notifications[k].task
          /\ tick.notifications[i].task \in notified
          /\ tick.notifications[i].task # tick.notifications[j].task

(***************************************************************************)
(* The status write of a reconciliation                                    *)
(***************************************************************************)
\* The status t holds every change the reconciliation made in memory: the
\* records as syncStatus left them, and after them one record for each task
\* it launched.
HoldsAllChanges(t, status) ==
    /\ Len(status.TaskStatuses) = Len(t.observed.TaskStatuses) + Len(t.launched)
    /\ \A i \in 1..Len(t.observed.TaskStatuses) :
          status.TaskStatuses[i] = t.observed.TaskStatuses[i]
    /\ \A k \in 1..Len(t.launched) :
          status.TaskStatuses[Len(t.observed.TaskStatuses) + k].Name = t.launched[k]

\* C31: a reconciliation writes the status at most once: the stored status
\* either stays as it was or takes all the record additions and state changes
\* of the reconciliation, the latter only when the write went through; a
\* reconciliation that returns before its write (the Dag cannot be fetched, an
\* observation fails) leaves the stored status as it was.
C31_StatusWrittenWholeOrNot ==
    [][tick'.kind = "reconcile" =>
          /\ tick'.wrote # "ok" => stored' = stored
          /\ tick'.wrote = "ok" => HoldsAllChanges(tick', stored')
          /\ tick'.err \in {ErrFetch, ErrObservation} =>
                (tick'.wrote = "no" /\ stored' = stored)]_vars

\* C31 witness: one write has stored a state change that syncStatus made and
\* the record of a task launched in the same reconciliation.
C31_Witness ==
    /\ Reconciled
    /\ tick.wrote = "ok"
    /\ tick.launched # << >>
    /\ \E i \in 1..Len(tick.observed.TaskStatuses) :
          tick.observed.TaskStatuses[i].State = StateCompleted
    /\ HoldsAllChanges(tick, stored)

\* The last step was a Reconcile whose status write at the end failed.
EndWriteFailed(t) ==
    /\ t.kind = "reconcile"
    /\ t.wrote = "failed"
    /\ t.err \notin {ErrCreatePod, ErrNoExecutor}

\* How many records of a status list are named name.
RecordCount(taskStatuses, name) ==
    Cardinality({i \in 1..Len(taskStatuses) : taskStatuses[i].Name = name})

\* C32: a reconciliation whose status write at the end fails returns that
\* error and leaves the stored status as it was; the reconciliation that
\* follows it (when it fetches the Dag and observes the tasks) admits the same
\* tasks again, creates no second pod for any of them and leaves their pods
\* as they are, and the status it writes has exactly one record for each
\* task it admitted.
C32_FailedWriteRetried ==
    [][/\ EndWriteFailed(tick') =>
             (tick'.err = ErrConflict /\ ~tick'.requeue /\ stored' = stored)
       /\ (/\ EndWriteFailed(tick)
           /\ tick'.kind = "reconcile"
           /\ tick'.observed.State # ""
           /\ tick'.err \notin {ErrFetch, ErrObservation})
             => /\ tick'.scheduled = tick.scheduled
                /\ \A n \in Range(tick.launched) :
                      /\ getPodName(DagName, n) \in DOMAIN pods
                      /\ getPodName(DagName, n) \notin tick'.created
                      /\ pods'[getPodName(DagName, n)] = pods[getPodName(DagName, n)]
                /\ tick'.wrote = "ok" =>
                      \A n \in Range(tick'.launched) :
                          RecordCount(stored'.TaskStatuses, n) = 1]_vars

\* C32 witness: after a reconciliation whose write failed, the next one has
\* admitted the same two tasks, found their pods and written their records.
C32_Witness ==
    /\ Reconciled
    /\ writeFailures = 1
    /\ tick.wrote = "ok"
    /\ tick.created = {}
    /\ Len(tick.launched) = 2
    /\ \A n \in Range(tick.launched) :
          /\ getPodName(DagName, n) \in DOMAIN pods
          /\ RecordCount(stored.TaskStatuses, n) = 1

(***************************************************************************)
(* Requeue                                                                 *)
(***************************************************************************)
\* The last Reconcile fetched the Dag.
Fetched == Reconciled /\ tick.observed.State # ""

\* A reconciliation requests a requeue exactly when its status write went
\* through with the Dag Running, and none when the Dag is Completed or Failed
\* after syncStatus.
RequeueIffRunningWritten ==
    Reconciled =>
        /\ tick.requeue <=> (tick.wrote = "ok" /\ stored.State = StateRunning)
        /\ tick.observed.State \in TerminalStates => ~tick.requeue

\* C33: a reconciliation requests a requeue exactly when it completes its
\* status write with the Dag Running and none when the Dag is Completed or
\* Failed; so a Dag that is stored Running is reconciled again: the
\* reconciliation that leaves it Running asks for a requeue or returns an
\* error, on which the framework calls it again.
C33_RunningIsRequeued ==
    /\ RequeueIffRunningWritten
    /\ (Fetched /\ stored.State = StateRunning) =>
          (tick.requeue \/ tick.err # NoError)

(***************************************************************************)
(* The fetch of the Dag                                                    *)
(***************************************************************************)
\* A step that changes nothing outside the tick: no status write, no pod, no
\* call of the scheduler.
NothingDone ==
    /\ stored' = stored
    /\ pods' = pods
    /\ tick'.wrote = "no"
    /\ tick'.created = {}
    /\ tick'.launched = << >>
    /\ tick'.notifications = << >>
    /\ UNCHANGED <<activeTasksPerDAG, totalActiveTasks>>

\* C34: when the Dag of the request is not found, Reconcile returns no error
\* and no requeue, writes no status, creates no pod and calls no notification
\* of the scheduler; any other error of the fetch is returned and changes
\* nothing either.
C34_FetchFailureChangesNothing ==
    [][/\ (tick'.kind = "reconcile" /\ tick'.fetch = "notfound") =>
             (tick'.err = NoError /\ ~tick'.requeue /\ NothingDone)
       /\ (tick'.kind = "reconcile" /\ tick'.fetch = "error") =>
             (tick'.err = ErrFetch /\ ~tick'.requeue /\ NothingDone)]_vars

\* C34 witness: the Dag is not found by a Reconcile while its stored status
\* has a Running record, its pod has succeeded and the counters are not zero.
C34_Witness ==
    /\ Reconciled
    /\ tick.fetch = "notfound"
    /\ tick.err = NoError
    /\ totalActiveTasks > 0
    /\ \E i \in 1..Len(stored.TaskStatuses) :
          /\ stored.TaskStatuses[i].State = StateRunning
          /\ stored.TaskStatuses[i].PodName \in DOMAIN pods
          /\ pods[stored.TaskStatuses[i].PodName] = PodSucceeded

(***************************************************************************)
(* The fallback of syncStatus                                              *)
(***************************************************************************)
\* The record of task name in a list of records that has one.
RecordOf(taskStatuses, name) == taskStatuses[StatusIndex(taskStatuses, name)]

\* The Reconcile in which the Runner fails to observe task name and the
\* direct Get of the pod fails or not, everything else succeeding.
FallbackRun(name, getErr) == ReconcileRun("ok", {name}, getErr, 0, FALSE)

\* The state pod.Executor.GetStatus gives for the pod of task name.
ExecutorState(name) == GetStatus(pods, DagName, TaskNamed(name), FALSE).state

\* C35: when the Runner's observation of a task fails, the pod is read by the
\* record's PodName: not found, the record stays as it is and Reconcile goes
\* on without that error; found, the record gets the state the executor's
\* mapping gives for the pod's phase; a Get that fails otherwise is returned
\* and no status is written.
C35_FallbackFollowsExecutor ==
    \A name \in Observable :
        LET rec == RecordOf(stored.TaskStatuses, name)
            found == FallbackRun(name, FALSE)
            failed == FallbackRun(name, TRUE)
        IN /\ rec.PodName \notin DOMAIN pods =>
                 /\ RecordOf(found.tick.observed.TaskStatuses, name) = rec
                 /\ found.tick.err # ErrObservation
           /\ rec.PodName \in DOMAIN pods =>
                 RecordOf(found.tick.observed.TaskStatuses, name) =
                     [rec EXCEPT !.State = ExecutorState(name)]
           /\ /\ failed.tick.err = ErrObservation
              /\ failed.tick.wrote = "no"
              /\ failed.stored = stored

(***************************************************************************)
(* Tasks whose dependencies can never all be Completed                     *)
(***************************************************************************)
\* The tasks that can run once the tasks in done have: every dependency is a
\* task of the spec in done.
RunnableAfter(done) ==
    {spec[i].Name : i \in {j \in 1..Len(spec) :
        \A k \in 1..Len(spec[j].Dependencies) : spec[j].Dependencies[k] \in done}}

RECURSIVE RunnableFrom(_)
RunnableFrom(done) ==
    IF RunnableAfter(done) \subseteq done THEN done
    ELSE RunnableFrom(done \cup RunnableAfter(done))

\* The tasks with a dependency that is no task of the spec, on themselves or
\* in a cycle of dependencies, and the tasks that depend on such a task.
NeverReady == Range(Names(spec)) \ RunnableFrom({})

\* Some task other than the never-ready ones has a Failed record.
AnotherTaskFailed ==
    \E i \in 1..Len(stored.TaskStatuses) :
        /\ stored.TaskStatuses[i].Name \notin NeverReady
        /\ stored.TaskStatuses[i].State = StateFailed

\* C36: a task whose dependencies can never all be Completed is admitted by
\* no Reconcile, has no record and no pod, makes no Reconcile return an error,
\* and its Dag, once Running, stays Running and is never Completed unless
\* another task fails.
C36_NeverReadyTaskNeverAdmitted ==
    /\ \A n \in NeverReady :
          /\ n \notin Range(tick.scheduled)
          /\ n \notin Range(tick.launched)
          /\ ~HasStatus(stored.TaskStatuses, n)
          /\ getPodName(DagName, n) \notin DOMAIN pods
          /\ n \notin notified
    /\ NeverReady # {} =>
          /\ ReconcileRun("ok", {}, FALSE, 0, FALSE).tick.err = NoError
          /\ stored.State # StateCompleted
          /\ stored.State \in {"", StateRunning} \/ AnotherTaskFailed

\* C36 witness: every task that can run has Completed, a Reconcile that wrote
\* the status has seen it, and the Dag is Running with its never-ready tasks
\* not started.
C36_Witness ==
    /\ Reconciled
    /\ tick.wrote = "ok"
    /\ NeverReady # {}
    /\ \A n \in Range(Names(spec)) \ NeverReady :
          HasRecordIn(stored.TaskStatuses, n, StateCompleted)
    /\ stored.State = StateRunning
    /\ tick.scheduled = << >>

(***************************************************************************)
(* How often the scheduler is told that a task has completed               *)
(***************************************************************************)
\* How many times op was called for task name in a log.
CallCount(log, op, name) ==
    Cardinality({i \in 1..Len(log) : log[i].op = op /\ log[i].task = name})

\* C37: within one lifetime of the controller NotifyTaskCompleted is called
\* at most once for each task: one Reconcile calls it at most once for a
\* task, and a Reconcile that directly follows another one (no restart in
\* between) does not call it for a task the earlier one called it for.
C37_CompletedNotifiedOnce ==
    [][tick'.kind = "reconcile" =>
          \A n \in Range(Names(spec)) :
              /\ CallCount(tick'.notifications, "completed", n) <= 1
              /\ (tick.kind = "reconcile" /\
                  CallCount(tick.notifications, "completed", n) > 0)
                    => CallCount(tick'.notifications, "completed", n) = 0]_vars

(***************************************************************************)
(* The counters against the stored records                                 *)
(***************************************************************************)
\* C38: the scheduler's counter of the Dag never exceeds the number of the
\* Dag's stored records in state Pending or Running, and neither does the
\* total counter (the model has one Dag, so the sum over all Dags is that
\* number); also after a Reconcile whose status write failed and the retry.
C38_CountersWithinActiveRecords ==
    /\ MapGet(activeTasksPerDAG, DagName) <= ActiveCount(stored.TaskStatuses)
    /\ totalActiveTasks <= ActiveCount(stored.TaskStatuses)

(***************************************************************************)
(* The total counter against the counters of the Dags                      *)
(***************************************************************************)
\* The sum of the counters of the Dags in names.
RECURSIVE SumOf(_, _)
SumOf(perDAG, names) ==
    IF names = {} THEN 0
    ELSE LET d == CHOOSE x \in names : TRUE
         IN perDAG[d] + SumOf(perDAG, names \ {d})

\* C39: whatever notifications the scheduler got, for whichever Dags and in
\* whichever order, totalActiveTasks is the sum of the entries of
\* activeTasksPerDAG.
C39_TotalIsSumOfDagCounters ==
    totalActiveTasks = SumOf(activeTasksPerDAG, DOMAIN activeTasksPerDAG)

(***************************************************************************)
(* Pod names of different Dags                                             *)
(***************************************************************************)
\* The last call of the executor created the only pod of the namespace, and
\* the call made now is for another task or another Dag.
OtherPairCalled ==
    /\ call.op = "Execute"
    /\ call.ret.created # {}
    /\ DOMAIN pods = call.ret.created
    /\ <<call'.dag, call'.task>> # <<call.dag, call.task>>

\* C40: two different (Dag, task) pairs of a namespace never share a pod,
\* also with "-" in the names: with the pod of one pair the only pod there
\* is, GetStatus for another pair finds no pod (Pending, no error) whatever
\* that pod's phase, and Execute for another pair creates a pod of its own.
C40_PodNamesDistinct ==
    [][OtherPairCalled =>
          /\ call'.op = "GetStatus" => call'.ret = [state |-> StatePending, err |-> FALSE]
          /\ (call'.op = "Execute" /\ ~call'.fault) =>
                (call'.ret.created # {} /\ call'.ret.created # call.ret.created)]_vars

====
